---- MODULE Spec2Model ----
(***************************************************************************)
(* Resumable batch execution of the financial-knowledge-graphs pipeline.   *)
(*                                                                         *)
(* One execution directory is modelled: its manifest execution_info.json,  *)
(* its batch folders (request file, metadata.json, downloaded output,      *)
(* results/), and the jobs held by the external Batch API.                 *)
(*                                                                         *)
(* Sources: src/src/llm/openai_batch_processor.py (submit_batch,           *)
(* check_batch_status, retrieve_batch_results), src/src/utils/batch_utils.py*)
(* (get_processed_item_ids, update_execution_metadata,                     *)
(* process_batch_results), src/src/runners/run_llm_task.py (process_batch),*)
(* src/src/runners/run_retrieve_batch.py (retrieve_execution_batches).     *)
(*                                                                         *)
(* The runners call the processor through an interface that the processor  *)
(* under src/ does not have: submit_batch(..., execution_dir=...) and      *)
(* retrieve_batch_items(batch_id, metadata, batch_path).  The directory    *)
(* argument of submit_batch is the execution directory; what that          *)
(* interface adds to the code under src/ is taken from the specification   *)
(* (sections 4.1, 4.2, 4.4): register_batch and retrieve_batch_items.      *)
(***************************************************************************)
EXTENDS Integers, Sequences, FiniteSets, TLC

VARIABLES
    config,           \* what every run loads: the input items and the batch settings
    execution_info,   \* execution_info.json of the execution directory
    folders,          \* the batch folders of the execution, in creation order
    remote,           \* the jobs of the external Batch API, in creation order
    last,             \* the last invocation: its arguments and what it returned
    executions,       \* the execution_<n> directories of batch_dir: n -> manifest
    procs,            \* the processes that allocate executions: where each is
    parent_batch_dirs, \* the parent_batch_* directories of batch_dir, in creation order
    manifest_file,    \* execution_info.json on disk: its bytes, a write in progress
    graph,            \* the entities stored in the Neo4j database, in creation order
    loaders           \* the loaders that insert into the database at once: where each is

vars ==
    <<config, execution_info, folders, remote, last, executions, procs,
      parent_batch_dirs, manifest_file, graph, loaders>>

(***************************************************************************)
(* Bounds of the model.                                                    *)
(***************************************************************************)
MaxItems == 3        \* number of distinct input items
MaxBatchSize == 2    \* largest batch_size a caller passes
MaxBatches == 2      \* number of batch folders an execution may hold
MaxRetrievalBatches == 1   \* batch folders of an execution whose retrieval is followed
MaxSummaryBatches == 2     \* batch folders of an execution whose summary is followed
MaxExecutions == 3   \* number of execution directories batch_dir may hold
MaxProcs == 2        \* number of processes that allocate executions
MaxTexts == 2        \* number of distinct texts the items of one call may have
MaxNameLen == 3      \* characters of the base name a suffix is added to
MaxInserts == 3      \* number of insert_entity calls on one graph
MaxLoaders == 2      \* number of loaders that insert into one database at once
MaxEntities == 2     \* entities of one result file
MaxRelationships == 2 \* relationships of one result file

(***************************************************************************)
(* Program constants.                                                      *)
(***************************************************************************)
DefaultBatchSize == 2000   \* submit_batch(batch_size: int = 2000)

(***************************************************************************)
(* Input items: (newsID, story) pairs; load_data returns the keys and the  *)
(* values of one dict, so the ids of an input are pairwise distinct.  No   *)
(* operation looks into an id, so the inputs are the lists a, b, ... of    *)
(* every length up to MaxItems.                                            *)
(***************************************************************************)
IdNames == <<"a", "b", "c", "d", "e">>
TextNames == <<"text A", "text B", "text C", "text D", "text E">>
ItemNames == <<"item_0", "item_1", "item_2", "item_3", "item_4">>
IndexNames == <<"0", "1", "2", "3", "4">>

Ids == {IdNames[i] : i \in 1..MaxItems}

TextOf(id) == TextNames[CHOOSE i \in 1..Len(IdNames) : IdNames[i] = id]

Inputs == {SubSeq(IdNames, 1, n) : n \in 0..MaxItems}

BatchSizes == 1..MaxBatchSize

Range(s) == {s[i] : i \in DOMAIN s}

(***************************************************************************)
(* The external Batch API.                                                 *)
(***************************************************************************)
RemoteStatuses == {"validating", "in_progress", "completed", "failed", "expired"}

Contents == {"{\"entities\": []}", "no entities found"}

\* The message content of a result record: JSON text, JSON text in a fenced
\* json block, text that is not JSON, the empty string, or null (None once the
\* record is loaded: the key is there, its value is not a str).
JsonText == "{\"entities\": []}"

\* (the fence is three backquotes in the source)
FencedJson == "<fence>json {\"entities\": []} <fence>"

None == "<None>"

AnyContents == Contents \cup {FencedJson, "", None}

\* where a record holds its choices: response.choices or response.body.choices
Shapes == {"flat", "nested"}

BadLine == [kind |-> "bad", custom_id |-> "", shape |-> "", content |-> ""]

Record(c, shape, t) ==
    [kind |-> "rec", custom_id |-> c, shape |-> shape, content |-> t]

RecLine(c, t) == Record(c, "flat", t)

\* The output artifact of a job: one line per request, in request order, each
\* a result record or a line that is not JSON.
OutputsOf(items) ==
    {out \in [1..Len(items) -> {BadLine} \cup
                  {RecLine(c, t) : c \in Range(items), t \in Contents}] :
        \A i \in 1..Len(items) : out[i].kind = "rec" => out[i].custom_id = items[i]}

\* The same with every shape of record and every content.
AnyOutputsOf(items) ==
    {out \in [1..Len(items) -> {BadLine} \cup
                  {Record(c, sh, t) : c \in Range(items), sh \in Shapes,
                                      t \in AnyContents}] :
        \A i \in 1..Len(items) : out[i].kind = "rec" => out[i].custom_id = items[i]}

(***************************************************************************)
(* Files of a batch folder.                                                *)
(***************************************************************************)
NoTexts == [c \in {} |-> ""]

NoFiles == [f \in {} |-> ""]

NoMeta ==
    [exists |-> FALSE, batch_id |-> 0, status |-> "", n_items |-> 0,
     original_texts |-> NoTexts, using_custom_ids |-> FALSE,
     last_checked |-> FALSE, completed_at |-> FALSE, n_results |-> -1,
     retrieved |-> FALSE]

\* what get_execution_path returns: no directory (None), the directory at
\* the path the pipeline is given, or the number n of execution_<n>
NoDir == -1

FollowedDir == 0

NoLast ==
    [op |-> "none", status |-> "", error |-> FALSE, api |-> 0,
     api_failed |-> FALSE, sent |-> <<>>, batch |-> 0, results |-> <<>>,
     execution |-> NoDir, returned |-> {}, args |-> <<>>, raised |-> "",
     results_summary |-> <<>>]

(***************************************************************************)
(* execution_info.json as a file.  execution_info is the last content that *)
(* was dumped in full; manifest_file.bytes says what the file holds now,   *)
(* when it exists: that content ("complete"), nothing ("empty", the file   *)
(* just opened for writing) or a prefix of a dump ("partial").  While a    *)
(* save_json is writing, data is what it dumps.                            *)
(***************************************************************************)
FileBytes == {"complete", "empty", "partial"}

NoData == [exists |-> FALSE, batches |-> <<>>, processed_item_ids |-> <<>>]

ClosedFile == [bytes |-> "complete", writing |-> FALSE, data |-> NoData]

\* the graph of a new database and the counter of a new Neo4jHandler
NoGraph == [nodes |-> <<>>, edges |-> <<>>, disambiguation_count |-> 0]

Loaders == 1..MaxLoaders

\* a loader that is not in insert_entity
IdleLoader == [pc |-> "idle", entity_data |-> <<>>, existing_id |-> None]

NoLoaders == [l \in Loaders |-> IdleLoader]

\* json.load(f) of execution_info.json succeeds
json_load_ok == manifest_file.bytes = "complete"

(***************************************************************************)
(* batch_utils.get_processed_item_ids: the manifest's list when the        *)
(* manifest is there, else the keys of original_texts of every batch       *)
(* folder that has a metadata.json.                                        *)
(***************************************************************************)
scan_batch_directories ==
    UNION {DOMAIN folders[i].meta.original_texts :
           i \in {k \in 1..Len(folders) : folders[k].meta.exists}}

get_processed_item_ids_empty == {}

\* a manifest that does not parse read as a run that processed nothing
get_processed_item_ids_unreadable ==
    IF execution_info.exists
    THEN IF json_load_ok THEN Range(execution_info.processed_item_ids) ELSE {}
    ELSE scan_batch_directories

get_processed_item_ids ==
    IF execution_info.exists /\ json_load_ok
    THEN Range(execution_info.processed_item_ids)
    ELSE scan_batch_directories

(***************************************************************************)
(* batch_utils.update_execution_metadata.                                  *)
(***************************************************************************)
RECURSIVE append_unique(_, _)
append_unique(list, item_ids) ==
    IF item_ids = <<>> THEN list
    ELSE append_unique(
            IF Head(item_ids) \in Range(list) THEN list
            ELSE Append(list, Head(item_ids)),
            Tail(item_ids))

\* the ids added to the list whether they are in it or not
update_execution_metadata_extend(info, batch_id, n_items, item_ids) ==
    IF ~info.exists THEN info
    ELSE [info EXCEPT
            !.batches = Append(@, [batch_id |-> batch_id, n_items |-> n_items]),
            !.processed_item_ids = @ \o item_ids]

update_execution_metadata(info, batch_id, n_items, item_ids) ==
    IF ~info.exists THEN info
    ELSE [info EXCEPT
            !.batches = Append(@, [batch_id |-> batch_id, n_items |-> n_items]),
            !.processed_item_ids =
                IF item_ids # <<>> THEN append_unique(@, item_ids) ELSE @]

\* the lists of item ids a caller may register: any ids, in any order, an id
\* more than once
IdLists == UNION {[1..n -> Ids] : n \in 0..MaxBatchSize}

\* a call of update_execution_metadata on its own, for the followed execution
update_execution_metadata_call ==
    \E item_ids \in IdLists :
        /\ Len(execution_info.batches) < MaxBatches
        /\ execution_info' =
              IF json_load_ok
              THEN update_execution_metadata(execution_info,
                                             Len(execution_info.batches) + 1,
                                             Len(item_ids), item_ids)
              ELSE execution_info   \* json.load raises, the except logs
        /\ last' = [NoLast EXCEPT !.op = "update_execution_metadata",
                                  !.sent = item_ids]
        /\ UNCHANGED <<manifest_file, graph, loaders, config, folders, remote, executions, procs,
                       parent_batch_dirs>>

\* The manifest update that submit_batch makes for an execution directory
\* (specification 4.2: "persists batch metadata ... and calls register_batch").
register_batch(info, batch_id, n_items, item_ids) ==
    update_execution_metadata(info, batch_id, n_items, item_ids)

(***************************************************************************)
(* file_utils.save_json of execution_info.json, step by step, as another   *)
(* process sees the file: open(file_path, 'w') truncates it, json.dump     *)
(* writes the text in pieces, leaving the with block closes it.  The       *)
(* writer is update_execution_metadata, which loads the manifest, adds the *)
(* batch and saves.                                                        *)
(***************************************************************************)
save_json_open ==
    \E item_ids \in IdLists :
        /\ ~manifest_file.writing
        /\ execution_info.exists
        /\ json_load_ok
        /\ Len(execution_info.batches) < MaxBatches
        /\ manifest_file' =
              [bytes |-> "empty", writing |-> TRUE,
               data |-> update_execution_metadata(execution_info,
                                                  Len(execution_info.batches) + 1,
                                                  Len(item_ids), item_ids)]
        /\ last' = [NoLast EXCEPT !.op = "update_execution_metadata",
                                  !.sent = item_ids]
        /\ UNCHANGED <<graph, loaders, config, execution_info, folders, remote, executions,
                       procs, parent_batch_dirs>>

save_json_dump ==
    /\ manifest_file.writing
    /\ manifest_file.bytes = "empty"
    /\ manifest_file' = [manifest_file EXCEPT !.bytes = "partial"]
    /\ UNCHANGED <<graph, loaders, config, execution_info, folders, remote, last,
                   executions, procs, parent_batch_dirs>>

save_json_close ==
    /\ manifest_file.writing
    /\ execution_info' = manifest_file.data
    /\ manifest_file' = ClosedFile
    /\ UNCHANGED <<graph, loaders, config, folders, remote, last, executions, procs,
                   parent_batch_dirs>>

\* a save_json that never reaches its json.dump or dies inside it (the process
\* killed, the disk full) leaves the truncated file behind
save_json_interrupted ==
    \E b \in FileBytes \ {"complete"} :
        /\ execution_info.exists
        /\ json_load_ok
        /\ manifest_file' = [ClosedFile EXCEPT !.bytes = b]
        /\ last' = [NoLast EXCEPT !.op = "save_json", !.status = b]
        /\ UNCHANGED <<graph, loaders, config, execution_info, folders, remote, executions,
                       procs, parent_batch_dirs>>

\* what a process that opens execution_info.json for reading finds
observed_file ==
    IF execution_info.exists THEN manifest_file.bytes ELSE "missing"

\* batch_utils.get_execution_info: {} for a missing file and for one that
\* json.load rejects
get_execution_info ==
    IF execution_info.exists /\ json_load_ok THEN execution_info ELSE NoData

get_execution_info_call ==
    /\ last' = [NoLast EXCEPT
                  !.op = "get_execution_info",
                  !.status = observed_file,
                  !.batch = Len(get_execution_info.batches),
                  !.returned = Range(get_execution_info.processed_item_ids)]
    /\ UNCHANGED <<manifest_file, graph, loaders, config, execution_info, folders, remote,
                   executions, procs, parent_batch_dirs>>

get_processed_item_ids_call ==
    /\ last' = [NoLast EXCEPT
                  !.op = "get_processed_item_ids",
                  !.status = observed_file,
                  !.returned = get_processed_item_ids]
    /\ UNCHANGED <<manifest_file, graph, loaders, config, execution_info, folders, remote,
                   executions, procs, parent_batch_dirs>>

(***************************************************************************)
(* OpenAIBatchProcessor.submit_batch.                                      *)
(***************************************************************************)
\* `if not texts`
empty_text_list(texts) == texts = <<>>

\* `texts = texts[:batch_size]` when len(texts) > batch_size
truncate(texts, batch_size) ==
    IF Len(texts) > batch_size THEN SubSeq(texts, 1, batch_size) ELSE texts

\* the loop that keeps the items whose id is not in processed_ids
filter_processed(item_ids, processed_ids) ==
    SelectSeq(item_ids, LAMBDA x : x \notin processed_ids)

\* custom_id of the item at position i: the caller's id, else item_<i>
custom_ids(texts, use_ids) ==
    [i \in 1..Len(texts) |-> IF use_ids THEN texts[i] ELSE ItemNames[i]]

original_texts_mapping(texts, use_ids) ==
    [c \in Range(custom_ids(texts, use_ids)) |->
        TextOf(texts[CHOOSE i \in 1..Len(texts) : custom_ids(texts, use_ids)[i] = c])]

(***************************************************************************)
(* The request file and original_texts of submit_batch, with the texts and *)
(* the ids as the two lists the caller passes.  item_ids is <<>> for None: *)
(* `if item_ids and ...` is false for None and for the empty list alike.   *)
(***************************************************************************)
Texts == {TextNames[i] : i \in 1..MaxTexts}

TextLists == UNION {[1..n -> Texts] : n \in 1..MaxItems}

\* the ids a caller has for n texts: none, or one distinct id for each (the
\* keys of the dict that load_data reads)
ItemIdLists(n) ==
    {<<>>} \cup {ids \in [1..n -> Ids] :
                    \A i \in 1..n : \A j \in 1..n : ids[i] = ids[j] => i = j}

\* prompt_template.replace("{text}", text)
formatted_prompt(text) == "Extract the entities of: " \o text

\* the item id of position i, counted from 1; ItemNames[i] is item_<i-1>
entry_item_id(item_ids, i) ==
    IF item_ids # <<>> /\ i <= Len(item_ids) THEN item_ids[i] ELSE ItemNames[i]

\* the lines of the .jsonl file
jsonl_entries(texts, item_ids) ==
    [i \in 1..Len(texts) |->
        [custom_id |-> entry_item_id(item_ids, i), content |-> formatted_prompt(texts[i])]]

\* every text under the generated id, what the caller's ids are
original_texts_generated(texts, item_ids) ==
    [c \in {ItemNames[i] : i \in 1..Len(texts)} |->
        texts[CHOOSE i \in 1..Len(texts) : ItemNames[i] = c]]

\* original_texts_mapping[item_id] = text, a later position overwriting
paired_original_texts(texts, item_ids) ==
    [c \in {entry_item_id(item_ids, i) : i \in 1..Len(texts)} |->
        LET at == {i \in 1..Len(texts) : entry_item_id(item_ids, i) = c}
        IN  texts[CHOOSE i \in at : \A j \in at : j <= i]]

\* the positions of item_ids whose id is not in processed_ids
filtered_indices(item_ids, processed_ids) ==
    LET F[i \in 0..Len(item_ids)] ==
            IF i = 0 THEN <<>>
            ELSE IF item_ids[i] \notin processed_ids THEN Append(F[i - 1], i)
                 ELSE F[i - 1]
    IN  F[Len(item_ids)]

\* submit_batch up to the files it writes: truncation, the filter, the
\* request file, original_texts
submit_batch_files ==
    /\ last.op = "none"
    /\ last.args # <<>>
    /\  LET texts == last.args.texts
            item_ids == last.args.item_ids
            batch_size == last.args.batch_size
            processed_ids == last.args.processed_ids
            cut_texts == truncate(texts, batch_size)
            cut_ids == IF item_ids # <<>> THEN truncate(item_ids, batch_size)
                       ELSE item_ids
            filtering == processed_ids # {} /\ cut_ids # <<>>
            kept == filtered_indices(cut_ids, processed_ids)
            filtered_texts == IF filtering THEN [k \in DOMAIN kept |-> cut_texts[kept[k]]]
                              ELSE cut_texts
            filtered_item_ids == IF filtering THEN [k \in DOMAIN kept |-> cut_ids[kept[k]]]
                                 ELSE cut_ids
            call == [NoLast EXCEPT
                       !.op = "submit_batch_files",
                       !.args = [texts |-> texts, item_ids |-> item_ids,
                                 batch_size |-> batch_size,
                                 processed_ids |-> processed_ids,
                                 filtered_texts |-> filtered_texts,
                                 filtered_item_ids |-> filtered_item_ids]]
        IN  /\ last' =
                 IF filtering /\ filtered_texts = <<>>
                 THEN [call EXCEPT !.status = "skipped"]
                 ELSE [call EXCEPT
                         !.status = "validating",
                         !.sent = jsonl_entries(filtered_texts, filtered_item_ids),
                         !.results = paired_original_texts(filtered_texts,
                                                           filtered_item_ids)]
            /\ UNCHANGED <<manifest_file, graph, loaders, config, execution_info, folders,
                           remote, executions, procs, parent_batch_dirs>>

SubmitOutcomes == {"ok", "upload_error", "create_error"}

CrashPoints == {"crash_after_create", "crash_after_metadata"}

(***************************************************************************)
(* batch_utils.create_next_batch_dir: the number of the next batch_<n>     *)
(* directory, from the numbers of the batch_<n> directories there are.     *)
(***************************************************************************)
Max(nums) == CHOOSE n \in nums : \A m \in nums : m <= n

\* the numbers n of the directories batch_<n> of the execution directory
batch_dirs == {folders[i].dir : i \in 1..Len(folders)}

\* the highest number there is, taken again
create_next_batch_dir_max(nums) == IF nums = {} THEN 1 ELSE Max(nums)

create_next_batch_dir(nums) == IF nums = {} THEN 1 ELSE Max(nums) + 1

\* The submitter names the folder of a batch with next_local_batch_id of the
\* manifest store (specification 4.1).
next_local_batch_id == create_next_batch_dir(batch_dirs)

NewFolder(request) ==
    [dir |-> next_local_batch_id, request |-> request, meta |-> NoMeta,
     output_file |-> FALSE, results |-> NoFiles]

NewJob(request) == [items |-> request, status |-> "validating", output |-> <<>>]

\* metadata.json saved although the API call failed
failed_batch_folder_saved(request, batch_info) ==
    [NewFolder(request) EXCEPT !.meta = batch_info]

\* the batch folder when the upload or batches.create raises: the request
\* file is there, the except returns before metadata.json is saved
failed_batch_folder(request, batch_info) == NewFolder(request)

\* submit_batch(task, texts, item_ids, batch_size, <execution directory>) as
\* called by `op`; `outcome` is what the external API (or the process) does
\* during the call.
submit_batch_call(op, texts, use_ids, batch_size, outcome) ==
    LET call == [NoLast EXCEPT !.op = op]
        truncated == truncate(texts, batch_size)
        processed_ids == get_processed_item_ids
        filtering == processed_ids # {} /\ use_ids
        filtered == IF filtering THEN filter_processed(truncated, processed_ids)
                    ELSE truncated
        request == custom_ids(filtered, use_ids)
        processed_item_ids == IF use_ids THEN filtered ELSE <<>>
        n == Len(folders) + 1
        job == Len(remote) + 1
        batch_info ==
            [NoMeta EXCEPT !.exists = TRUE, !.batch_id = job,
                           !.status = "validating", !.n_items = Len(filtered),
                           !.original_texts = original_texts_mapping(filtered, use_ids),
                           !.using_custom_ids = use_ids]
    IN
    IF empty_text_list(texts)
    THEN /\ outcome = "ok"
         /\ last' = [call EXCEPT !.status = "failed", !.error = TRUE]
         /\ UNCHANGED <<execution_info, folders, remote>>
    ELSE IF filtering /\ filtered = <<>>
    THEN /\ outcome = "ok"
         /\ last' = [call EXCEPT !.status = "skipped"]
         /\ UNCHANGED <<execution_info, folders, remote>>
    ELSE /\ Len(folders) < MaxBatches
         /\ CASE outcome = "unknown_task" ->
                   \* the batch folder is made, then prompts[task] raises
                   /\ folders' = Append(folders, NewFolder(<<>>))
                   /\ last' = [call EXCEPT !.raised = "KeyError", !.batch = n]
                   /\ UNCHANGED <<execution_info, remote>>
              [] outcome = "upload_error" ->
                   /\ folders' = Append(folders, failed_batch_folder(request, batch_info))
                   /\ last' = [call EXCEPT !.status = "failed", !.error = TRUE,
                                           !.api = 1, !.api_failed = TRUE,
                                           !.batch = n]
                   /\ UNCHANGED <<execution_info, remote>>
              [] outcome = "create_error" ->
                   /\ folders' = Append(folders, failed_batch_folder(request, batch_info))
                   /\ last' = [call EXCEPT !.status = "failed", !.error = TRUE,
                                           !.api = 2, !.api_failed = TRUE,
                                           !.batch = n]
                   /\ UNCHANGED <<execution_info, remote>>
              [] outcome = "crash_after_create" ->
                   /\ folders' = Append(folders, NewFolder(request))
                   /\ remote' = Append(remote, NewJob(request))
                   /\ last' = [call EXCEPT !.status = "crashed", !.api = 2,
                                           !.sent = request, !.batch = n]
                   /\ UNCHANGED execution_info
              [] outcome = "crash_after_metadata" ->
                   /\ folders' = Append(folders,
                                    [NewFolder(request) EXCEPT !.meta = batch_info])
                   /\ remote' = Append(remote, NewJob(request))
                   /\ last' = [call EXCEPT !.status = "crashed", !.api = 2,
                                           !.sent = request, !.batch = n]
                   /\ UNCHANGED execution_info
              [] outcome = "ok" ->
                   /\ folders' = Append(folders,
                                    [NewFolder(request) EXCEPT !.meta = batch_info])
                   /\ remote' = Append(remote, NewJob(request))
                   /\ execution_info' =
                        IF json_load_ok
                        THEN register_batch(execution_info, n, Len(filtered),
                                            processed_item_ids)
                        ELSE execution_info
                   /\ last' = [call EXCEPT !.status = "validating", !.api = 2,
                                           !.sent = request, !.batch = n]

\* A caller passes its whole input to submit_batch (main of src/run_llm_task.py,
\* the example at the end of openai_batch_processor.py).
submit_batch ==
    \E outcome \in SubmitOutcomes :
        /\ submit_batch_call("submit_batch", config.news_ids, config.use_ids,
                             config.batch_size, outcome)
        /\ UNCHANGED <<manifest_file, graph, loaders, config, executions, procs, parent_batch_dirs>>

(***************************************************************************)
(* batch_utils.get_execution_path for an execution id that is not empty:   *)
(* the id as a path, as the name of a directory of batch_dir, as such a    *)
(* name without its prefix; None when none of them is a directory.         *)
(***************************************************************************)
EXECUTION_PREFIX == "execution_"

DEFAULT_BATCH_DIR == "data/batch_processing"

\* the numbers n of the directories execution_<n> of batch_dir
execution_dirs == DOMAIN executions

ExecutionName(n) == EXECUTION_PREFIX \o ToString(n)

ExecutionPath(n) == DEFAULT_BATCH_DIR \o "/" \o ExecutionName(n)

\* The path of the execution directory that holds execution_info and folders:
\* the runs of the pipeline are given it as their execution id.
FollowedPath == "runs/followed"

\* a number no directory of batch_dir has
UnknownNum == MaxExecutions + 1

ExecutionNums == 1..UnknownNum

\* execution_id.startswith(EXECUTION_PREFIX), of the ids of the model
startswith_prefix(execution_id) ==
    \E n \in ExecutionNums : execution_id = ExecutionName(n)

\* os.path.isdir(path): the directory it is, or NoDir
isdir(path, dirs) ==
    IF path = FollowedPath THEN FollowedDir
    ELSE IF \E n \in dirs : path = ExecutionPath(n)
    THEN CHOOSE n \in dirs : path = ExecutionPath(n)
    ELSE NoDir

get_execution_path(execution_id, dirs) ==
    LET direct_path == DEFAULT_BATCH_DIR \o "/" \o execution_id
        prefixed_path ==
            DEFAULT_BATCH_DIR \o "/" \o EXECUTION_PREFIX \o execution_id
    IN  IF isdir(execution_id, dirs) # NoDir THEN isdir(execution_id, dirs)
        ELSE IF isdir(direct_path, dirs) # NoDir THEN isdir(direct_path, dirs)
        ELSE IF ~startswith_prefix(execution_id)
                /\ isdir(prefixed_path, dirs) # NoDir
        THEN isdir(prefixed_path, dirs)
        ELSE NoDir

\* the ids a caller may pass: paths, names and numbers of executions, and a
\* name that is none of them
ExecutionIds ==
    {FollowedPath, "results"}
        \cup {ExecutionPath(n) : n \in ExecutionNums}
        \cup {ExecutionName(n) : n \in ExecutionNums}
        \cup {ToString(n) : n \in ExecutionNums}

\* a call of get_execution_path on its own
get_execution_path_call ==
    \E execution_id \in ExecutionIds :
        /\ last' = [NoLast EXCEPT
                      !.op = "get_execution_path",
                      !.sent = <<execution_id>>,
                      !.execution = get_execution_path(execution_id, execution_dirs)]
        /\ UNCHANGED <<manifest_file, graph, loaders, config, execution_info, folders, remote, executions, procs,
                       parent_batch_dirs>>

(***************************************************************************)
(* runners/run_llm_task.process_batch: filter the loaded items, cut the    *)
(* rest to the configured batch size, submit one batch (submit_batch is    *)
(* called without batch_size, so its default applies) and hand the result  *)
(* to handle_batch_submission_result.                                      *)
(***************************************************************************)
filter_processed_texts_and_ids(news_ids, processed_ids) ==
    SelectSeq(news_ids, LAMBDA id : id \notin processed_ids)

\* `texts_batch[0:batch_size]` when len(texts_batch) > batch_size
texts_batch(news_ids, processed_ids, batch_size) ==
    LET unprocessed == filter_processed_texts_and_ids(news_ids, processed_ids)
    IN  IF Len(unprocessed) > batch_size THEN SubSeq(unprocessed, 1, batch_size)
        ELSE unprocessed

\* submit_batch when the directory it is given is None: nothing is filtered,
\* a new parent_batch_* directory is made in batch_dir and the batch is
\* submitted under it.
submit_batch_new_parent(op, texts, use_ids, batch_size, outcome) ==
    LET call == [NoLast EXCEPT !.op = op]
        truncated == truncate(texts, batch_size)
        request == custom_ids(truncated, use_ids)
        batch_info ==
            [NoMeta EXCEPT !.exists = TRUE, !.batch_id = Len(remote) + 1,
                           !.status = "validating", !.n_items = Len(truncated),
                           !.original_texts = original_texts_mapping(truncated, use_ids),
                           !.using_custom_ids = use_ids]
    IN
    IF empty_text_list(texts)
    THEN /\ outcome = "ok"
         /\ last' = [call EXCEPT !.status = "failed", !.error = TRUE]
         /\ UNCHANGED <<remote, parent_batch_dirs>>
    ELSE /\ Len(parent_batch_dirs) < MaxBatches
         /\ CASE outcome = "upload_error" ->
                   /\ parent_batch_dirs' =
                         Append(parent_batch_dirs,
                                [request |-> request, meta |-> NoMeta])
                   /\ last' = [call EXCEPT !.status = "failed", !.error = TRUE,
                                           !.api = 1, !.api_failed = TRUE]
                   /\ UNCHANGED remote
              [] outcome = "create_error" ->
                   /\ parent_batch_dirs' =
                         Append(parent_batch_dirs,
                                [request |-> request, meta |-> NoMeta])
                   /\ last' = [call EXCEPT !.status = "failed", !.error = TRUE,
                                           !.api = 2, !.api_failed = TRUE]
                   /\ UNCHANGED remote
              [] outcome = "ok" ->
                   /\ parent_batch_dirs' =
                         Append(parent_batch_dirs,
                                [request |-> request, meta |-> batch_info])
                   /\ remote' = Append(remote, NewJob(request))
                   /\ last' = [call EXCEPT !.status = "validating", !.api = 2,
                                           !.sent = request]

\* get_execution_path is given config["execution_id"]; its result is passed on
\* as it is, to the filter (which filters nothing when it is None) and to
\* submit_batch.
process_batch ==
    \E outcome \in SubmitOutcomes :
        LET execution_dir == get_execution_path(config.execution_id, execution_dirs)
        IN  IF execution_dir = NoDir
            THEN /\ submit_batch_new_parent(
                        "process_batch",
                        texts_batch(config.news_ids, {}, config.batch_size),
                        TRUE, DefaultBatchSize, outcome)
                 /\ UNCHANGED <<manifest_file, graph, loaders, config, execution_info, folders, executions, procs>>
            ELSE /\ execution_dir = FollowedDir
                 /\ submit_batch_call(
                        "process_batch",
                        texts_batch(config.news_ids, get_processed_item_ids,
                                    config.batch_size),
                        TRUE, DefaultBatchSize, outcome)
                 /\ UNCHANGED <<manifest_file, graph, loaders, config, executions, procs, parent_batch_dirs>>

(***************************************************************************)
(* The external Batch API works on its jobs.                               *)
(***************************************************************************)
\* any_record: whether records of either shape with any content may come
job_progress(any_record) ==
    \E j \in 1..Len(remote) :
        /\ \/ /\ remote[j].status = "validating"
              /\ \E s \in {"in_progress", "failed"} :
                    remote' = [remote EXCEPT ![j].status = s]
           \/ /\ remote[j].status = "in_progress"
              /\ \/ \E out \in (IF any_record THEN AnyOutputsOf(remote[j].items)
                                  ELSE OutputsOf(remote[j].items)) :
                        remote' = [remote EXCEPT ![j].status = "completed",
                                                 ![j].output = out]
                 \/ \E s \in {"failed", "expired"} :
                        remote' = [remote EXCEPT ![j].status = s]
        /\ last' = [NoLast EXCEPT !.op = "external"]
        /\ UNCHANGED <<manifest_file, graph, loaders, config, execution_info, folders, executions, procs,
                     parent_batch_dirs>>

\* records with response.choices and a content that is JSON or plain text
external_job_progress == job_progress(FALSE)

\* records of either shape with any content
external_job_progress_any == job_progress(TRUE)

ApiOutcomes == {"ok", "error"}

(***************************************************************************)
(* OpenAIBatchProcessor.check_batch_status.                                *)
(***************************************************************************)
\* a poll that also marked the batch retrieved
checked_metadata_retrieved(meta, status) ==
    [meta EXCEPT !.status = status, !.last_checked = TRUE, !.retrieved = TRUE]

\* metadata.json after a successful poll
checked_metadata(meta, status) ==
    [meta EXCEPT !.status = status, !.last_checked = TRUE]

\* status_info["completed"]
status_completed_always(status) == TRUE

status_completed(status) == status = "completed"

check_batch_status ==
    \E b \in 1..Len(folders), poll \in ApiOutcomes :
        /\ folders[b].meta.exists
        /\ LET job == remote[folders[b].meta.batch_id]
               call == [NoLast EXCEPT !.op = "check_batch_status", !.batch = b, !.api = 1]
           IN  IF poll = "error"
               THEN /\ last' = [call EXCEPT !.status = "failed", !.error = TRUE,
                                            !.api_failed = TRUE]
                    /\ UNCHANGED folders
               ELSE /\ folders' = [folders EXCEPT
                                     ![b].meta = checked_metadata(@, job.status)]
                    /\ last' = [call EXCEPT !.status = job.status]
        /\ UNCHANGED <<manifest_file, graph, loaders, config, execution_info, remote, executions, procs,
                     parent_batch_dirs>>

(***************************************************************************)
(* Result files.                                                           *)
(***************************************************************************)
\* `index = item_id.replace("item_", "")`, the name of result_<index>.json
result_index(item_id) ==
    IF \E i \in 1..Len(ItemNames) : ItemNames[i] = item_id
    THEN IndexNames[CHOOSE i \in 1..Len(ItemNames) : ItemNames[i] = item_id]
    ELSE item_id

\* The content of the first choice's message when result["response"] has
\* "choices", else "".
message_content(line) == IF line.shape = "flat" THEN line.content ELSE ""

\* the content holds an opening json fence and a closing fence after it
has_json_fence(content) == content = FencedJson

\* the stripped text between the opening json fence and the next fence
fence_body(content) == IF content = FencedJson THEN JsonText ELSE content

\* json.loads(text), `except json.JSONDecodeError` giving the wrapper of content
json_loads_or_raw(text, content) ==
    IF text = JsonText
    THEN [kind |-> "object", value |-> "entities: []"]
    ELSE [kind |-> "raw_output", value |-> content]

\* The parse of the model's text; the `in` test on None raises TypeError, which the
\* `except json.JSONDecodeError` does not catch.
parsed_content(content) ==
    IF content = None THEN [kind |-> "TypeError", value |-> ""]
    ELSE IF has_json_fence(content)
    THEN json_loads_or_raw(fence_body(content), content)
    ELSE json_loads_or_raw(content, content)

save_json(files, name, data) ==
    [f \in DOMAIN files \cup {name} |-> IF f = name THEN data ELSE files[f]]

\* The loop over the lines of the output file.  json.loads(line) is inside the
\* loop and the try is around the loop: a line that is not JSON, or a content
\* that is None, ends the loop with an exception; the files saved before it
\* stay.
RECURSIVE process_lines(_, _, _, _)
process_lines(lines, original_texts, files, results) ==
    IF lines = <<>> THEN [raised |-> FALSE, files |-> files, results |-> results]
    ELSE LET line == Head(lines) IN
         IF line.kind = "bad"
         THEN [raised |-> TRUE, files |-> files, results |-> results]
         ELSE IF line.custom_id \notin DOMAIN original_texts
         THEN process_lines(Tail(lines), original_texts, files, results)
         ELSE IF parsed_content(message_content(line)).kind = "TypeError"
         THEN [raised |-> TRUE, files |-> files, results |-> results]
         ELSE process_lines(Tail(lines), original_texts,
                            save_json(files, result_index(line.custom_id),
                                      parsed_content(message_content(line))),
                            Append(results, line.custom_id))

\* batch_utils.process_batch_results: the same loop; `except: return []`
process_batch_results(lines, original_texts, files) ==
    LET p == process_lines(lines, original_texts, files, <<>>)
    IN  [files |-> p.files, results |-> IF p.raised THEN <<>> ELSE p.results]

(***************************************************************************)
(* OpenAIBatchProcessor.retrieve_batch_results.                            *)
(***************************************************************************)
\* metadata.json after the loop over the lines ended without an exception
completed_metadata(meta, results) ==
    [meta EXCEPT !.status = "completed", !.completed_at = TRUE,
                 !.n_results = Len(results)]

\* every invocation finds no output file
output_file_never_exists(folder) == FALSE

\* os.path.exists(output_file) of <batch_id>_output.jsonl in the batch folder
output_file_exists(folder) == folder.output_file

retrieve_batch_results ==
    \E b \in 1..Len(folders), poll \in ApiOutcomes, download \in ApiOutcomes :
        /\ folders[b].meta.exists
        /\ LET folder == folders[b]
               job == remote[folder.meta.batch_id]
               call == [NoLast EXCEPT !.op = "retrieve_batch_results", !.batch = b]
               checked == checked_metadata(folder.meta, job.status)
               p == process_lines(job.output, checked.original_texts,
                                  folder.results, <<>>)
           IN  IF poll = "error"
               THEN /\ download = "ok"
                    /\ last' = [call EXCEPT !.status = "failed", !.error = TRUE, !.api = 1,
                                     !.api_failed = TRUE]
                    /\ UNCHANGED folders
               ELSE IF ~status_completed(job.status)
               THEN /\ download = "ok"
                    /\ folders' = [folders EXCEPT ![b].meta = checked]
                    /\ last' = [call EXCEPT !.status = job.status, !.api = 1]
               ELSE IF ~output_file_exists(folder) /\ download = "error"
               THEN /\ folders' = [folders EXCEPT ![b].meta = checked]
                    /\ last' = [call EXCEPT !.status = "failed", !.error = TRUE, !.api = 2,
                                     !.api_failed = TRUE]
               ELSE IF p.raised
               THEN /\ output_file_exists(folder) => download = "ok"
                    /\ folders' = [folders EXCEPT ![b].meta = checked,
                                                  ![b].output_file = TRUE,
                                                  ![b].results = p.files]
                    /\ last' = [call EXCEPT !.status = "failed", !.error = TRUE,
                                            !.api = IF output_file_exists(folder) THEN 1 ELSE 2]
               ELSE /\ output_file_exists(folder) => download = "ok"
                    /\ folders' = [folders EXCEPT
                                     ![b].meta = completed_metadata(checked, p.results),
                                     ![b].output_file = TRUE,
                                     ![b].results = p.files]
                    /\ last' = [call EXCEPT !.status = "completed",
                                            !.api = IF output_file_exists(folder) THEN 1 ELSE 2,
                                            !.results = p.results]
        /\ UNCHANGED <<manifest_file, graph, loaders, config, execution_info, remote, executions, procs,
                     parent_batch_dirs>>

(***************************************************************************)
(* retrieve_batch_items(batch_id, metadata, batch_path), which the runner  *)
(* calls, after specification 4.4: the retrieved guard, the status guard,  *)
(* one download, process_batch_results for the lines, then retrieved,      *)
(* completion time and result count persisted.                             *)
(***************************************************************************)
retrieved_metadata(meta, results) ==
    [completed_metadata(meta, results) EXCEPT !.retrieved = TRUE]

retrieve_batch_items(op, b, poll, download) ==
    LET folder == folders[b]
        job == remote[folder.meta.batch_id]
        call == [NoLast EXCEPT !.op = op, !.batch = b]
        checked == checked_metadata(folder.meta, job.status)
        p == process_batch_results(job.output, checked.original_texts, folder.results)
    IN  IF folder.meta.retrieved
        THEN /\ poll = "ok" /\ download = "ok"
             /\ last' = [call EXCEPT !.status = "already_retrieved"]
             /\ UNCHANGED folders
        ELSE IF poll = "error"
        THEN /\ download = "ok"
             /\ last' = [call EXCEPT !.status = "failed", !.error = TRUE, !.api = 1,
                                     !.api_failed = TRUE]
             /\ UNCHANGED folders
        ELSE IF ~status_completed(job.status)
        THEN /\ download = "ok"
             /\ folders' = [folders EXCEPT ![b].meta = checked]
             /\ last' = [call EXCEPT !.status = job.status, !.api = 1]
        ELSE IF ~folder.output_file /\ download = "error"
        THEN /\ folders' = [folders EXCEPT ![b].meta = checked]
             /\ last' = [call EXCEPT !.status = "failed", !.error = TRUE, !.api = 2,
                                     !.api_failed = TRUE]
        ELSE /\ folder.output_file => download = "ok"
             /\ folders' = [folders EXCEPT
                              ![b].meta = retrieved_metadata(checked, p.results),
                              ![b].output_file = TRUE,
                              ![b].results = p.files]
             /\ last' = [call EXCEPT !.status = "completed",
                                     !.api = IF folder.output_file THEN 1 ELSE 2,
                                     !.results = p.results]

(***************************************************************************)
(* runners/run_retrieve_batch.retrieve_execution_batches: the body of its  *)
(* loop over the batch folders, for the folder b.                          *)
(***************************************************************************)
\* `if metadata.get("retrieved", False)`
already_retrieved(meta) == meta.retrieved

\* `if not execution_dir`: the structured failure
execution_not_found ==
    /\ last' = [NoLast EXCEPT !.op = "retrieve_execution_batches",
                              !.status = "failed", !.error = TRUE]
    /\ UNCHANGED <<manifest_file, graph, loaders, config, execution_info, folders, remote, executions, procs,
                   parent_batch_dirs>>

retrieve_execution_batches ==
    IF get_execution_path(config.execution_id, execution_dirs) = NoDir
    THEN execution_not_found
    ELSE
    \E b \in 1..Len(folders), poll \in ApiOutcomes, download \in ApiOutcomes :
        /\ get_execution_path(config.execution_id, execution_dirs) = FollowedDir
        /\ LET call == [NoLast EXCEPT !.op = "retrieve_execution_batches", !.batch = b]
           IN  IF ~folders[b].meta.exists
               THEN \* open(metadata_path) raises; the handler formats batch_id,
                    \* which is bound only once an earlier folder of the
                    \* listing (in any order) had a metadata.json that loaded
                    /\ poll = "ok" /\ download = "ok"
                    /\ \E bound \in {\E k \in 1..Len(folders) : folders[k].meta.exists,
                                     FALSE} :
                          last' = IF bound
                                  THEN [call EXCEPT !.status = "failed",
                                                    !.error = TRUE]
                                  ELSE [call EXCEPT !.raised = "UnboundLocalError"]
                    /\ UNCHANGED folders
               ELSE IF already_retrieved(folders[b].meta)
               THEN /\ poll = "ok" /\ download = "ok"
                    /\ last' = [call EXCEPT !.status = "already_retrieved"]
                    /\ UNCHANGED folders
               ELSE retrieve_batch_items("retrieve_execution_batches", b, poll, download)
        /\ UNCHANGED <<manifest_file, graph, loaders, config, execution_info, remote, executions, procs,
                     parent_batch_dirs>>

(***************************************************************************)
(* The process dies inside submit_batch: after batches.create returned and *)
(* before metadata.json is saved, or after metadata.json is saved and      *)
(* before the manifest is updated.                                         *)
(***************************************************************************)
submit_batch_crash ==
    \E outcome \in CrashPoints :
        /\ submit_batch_call("submit_batch", config.news_ids, config.use_ids,
                             config.batch_size, outcome)
        /\ UNCHANGED <<manifest_file, graph, loaders, config, executions, procs, parent_batch_dirs>>

\* submit_batch for a task that prompts.yaml has no prompt for
submit_batch_unknown_task ==
    /\ Len(folders) < MaxRetrievalBatches
    /\ submit_batch_call("submit_batch", config.news_ids, config.use_ids,
                         config.batch_size, "unknown_task")
    /\ UNCHANGED <<manifest_file, graph, loaders, config, executions, procs, parent_batch_dirs>>

process_batch_crash ==
    \E outcome \in CrashPoints :
        /\ submit_batch_call("process_batch",
                             texts_batch(config.news_ids, get_processed_item_ids,
                                         config.batch_size),
                             TRUE, DefaultBatchSize, outcome)
        /\ UNCHANGED <<manifest_file, graph, loaders, config, executions, procs, parent_batch_dirs>>

(***************************************************************************)
(* batch_utils.create_next_execution_dir, which get_execution_path calls   *)
(* for an empty execution id: list batch_dir, take max + 1, make the       *)
(* directory (an existing one is not an error), write execution_info.json. *)
(***************************************************************************)
Procs == 1..MaxProcs

IdleProc == [pc |-> "idle", next_num |-> 0, execution_ids |-> <<>>]

NoExecutions == [n \in {} |-> 0]

\* the highest number there is, taken again
next_num_max(nums) == IF nums = {} THEN 1 ELSE Max(nums)

\* next_num
next_num(nums) == IF nums = {} THEN 1 ELSE Max(nums) + 1

\* a directory without execution_info.json
NoManifest ==
    [exists |-> FALSE, created_at |-> 0, batches |-> <<>>,
     processed_item_ids |-> <<>>]

\* exec_metadata; created_at is the moment of the write, which is the writer's
exec_metadata(p) ==
    [exists |-> TRUE, created_at |-> p, batches |-> <<>>,
     processed_item_ids |-> <<>>]

\* ensure_dir(exec_dir_path): mkdir with exist_ok
ensure_dir(dirs, n) == IF n \in DOMAIN dirs THEN dirs ELSE (n :> NoManifest) @@ dirs

\* the three steps of one call, another process running between them
alloc_list(p) ==
    /\ procs[p].pc = "idle"
    /\ Cardinality(execution_dirs) < MaxExecutions
    /\ procs' = [procs EXCEPT ![p].pc = "listed",
                              ![p].next_num = next_num(execution_dirs)]
    /\ last' = [NoLast EXCEPT !.op = "listdir"]
    /\ UNCHANGED <<manifest_file, graph, loaders, config, execution_info, folders, remote, executions,
                 parent_batch_dirs>>

alloc_mkdir(p) ==
    /\ procs[p].pc = "listed"
    /\ executions' = ensure_dir(executions, procs[p].next_num)
    /\ procs' = [procs EXCEPT ![p].pc = "made"]
    /\ last' = [NoLast EXCEPT !.op = "ensure_dir"]
    /\ UNCHANGED <<manifest_file, graph, loaders, config, execution_info, folders, remote, parent_batch_dirs>>

alloc_save(p) ==
    /\ procs[p].pc = "made"
    /\ executions' = [executions EXCEPT ![procs[p].next_num] = exec_metadata(p)]
    /\ procs' = [procs EXCEPT ![p] = [pc |-> "idle", next_num |-> 0,
                                      execution_ids |->
                                          Append(@.execution_ids, @.next_num)]]
    /\ last' = [NoLast EXCEPT !.op = "get_execution_path",
                              !.execution = procs[p].next_num]
    /\ UNCHANGED <<manifest_file, graph, loaders, config, execution_info, folders, remote, parent_batch_dirs>>

\* get_execution_path("") as one step: no other process runs during the call
create_next_execution_dir(p) ==
    LET n == next_num(execution_dirs)
    IN  /\ procs[p].pc = "idle"
        /\ Cardinality(execution_dirs) < MaxExecutions
        /\ executions' = [ensure_dir(executions, n) EXCEPT ![n] = exec_metadata(p)]
        /\ procs' = [procs EXCEPT ![p].execution_ids = Append(@, n)]
        /\ last' = [NoLast EXCEPT !.op = "get_execution_path", !.execution = n]
        /\ UNCHANGED <<manifest_file, graph, loaders, config, execution_info, folders, remote, parent_batch_dirs>>

\* A process submits the next batch of its input under the execution it
\* allocated last: the part of the submission the manifest sees.
register_execution_batch(p) ==
    /\ procs[p].pc = "idle"
    /\ procs[p].execution_ids # <<>>
    /\ LET n == procs[p].execution_ids[Len(procs[p].execution_ids)]
           item_ids == texts_batch(config.news_ids,
                                   Range(executions[n].processed_item_ids),
                                   config.batch_size)
       IN  /\ item_ids # <<>>
           /\ Len(executions[n].batches) < MaxBatches
           /\ executions' =
                 [executions EXCEPT
                    ![n] = register_batch(@, Len(@.batches) + 1, Len(item_ids),
                                          item_ids)]
           /\ last' = [NoLast EXCEPT !.op = "register_batch", !.execution = n,
                                     !.sent = item_ids]
    /\ UNCHANGED <<manifest_file, graph, loaders, config, execution_info, folders, remote, procs,
                 parent_batch_dirs>>

Configs ==
    [news_ids : Inputs, use_ids : BOOLEAN, batch_size : BatchSizes,
     execution_id : {FollowedPath}]

\* execution_info.json as create_next_execution_dir writes it; an execution
\* directory without the file is one every reader falls back on scanning for.
Manifests ==
    {[exists |-> e, batches |-> <<>>, processed_item_ids |-> <<>>] : e \in BOOLEAN}

Init ==
    /\ config \in Configs
    /\ execution_info \in Manifests
    /\ folders = <<>>
    /\ remote = <<>>
    /\ last = NoLast
    /\ executions = NoExecutions
    /\ procs = [p \in Procs |-> IdleProc]
    /\ parent_batch_dirs = <<>>
    /\ manifest_file = ClosedFile
    /\ graph = NoGraph
    /\ loaders = NoLoaders

(***************************************************************************)
(* The whole pipeline on one execution.                                    *)
(***************************************************************************)
Next ==
    \/ submit_batch
    \/ process_batch
    \/ external_job_progress
    \/ check_batch_status
    \/ retrieve_batch_results
    \/ retrieve_execution_batches

Spec == Init /\ [][Next]_vars

(***************************************************************************)
(* Repeated submission by a single sequential writer.                      *)
(***************************************************************************)
NextSubmit ==
    \/ submit_batch
    \/ process_batch

SpecSubmit == Init /\ [][NextSubmit]_vars

(***************************************************************************)
(* Repeated submission where a run may die inside submit_batch.            *)
(***************************************************************************)
NextCrash ==
    \/ submit_batch
    \/ process_batch
    \/ submit_batch_crash
    \/ process_batch_crash

SpecCrash == Init /\ [][NextCrash]_vars

(***************************************************************************)
(* Status tracking and retrieval of the batches that the runner submits:   *)
(* process_batch, then the external API, check_batch_status and the two    *)
(* retrieval entry points, on an execution that create_next_execution_dir  *)
(* made and that holds at most MaxRetrievalBatches batch folders.          *)
(***************************************************************************)
submit_for_retrieval ==
    /\ Len(folders) < MaxRetrievalBatches
    /\ process_batch

NextRetrieve ==
    \/ submit_for_retrieval
    \/ external_job_progress
    \/ check_batch_status
    \/ retrieve_batch_results
    \/ retrieve_execution_batches

\* process_batch always passes item ids, whatever config.use_ids holds
InitRetrieve ==
    /\ Init
    /\ execution_info.exists
    /\ config.use_ids

SpecRetrieve == InitRetrieve /\ [][NextRetrieve]_vars

(***************************************************************************)
(* Retrieval of one batch whose output holds records of every shape and    *)
(* content: the whole input fits the first batch the runner submits.       *)
(***************************************************************************)
NextParse ==
    \/ process_batch
    \/ external_job_progress_any
    \/ retrieve_batch_results
    \/ retrieve_execution_batches

InitParse ==
    /\ InitRetrieve
    /\ config.news_ids # <<>>
    /\ Len(config.news_ids) <= config.batch_size

SpecParse == InitParse /\ [][NextParse]_vars

(***************************************************************************)
(* Allocation of executions, one call at a time: a call returns before the *)
(* next one starts.                                                        *)
(***************************************************************************)
NextAllocSeq ==
    \/ \E p \in Procs : create_next_execution_dir(p)
    \/ \E p \in Procs : register_execution_batch(p)

SpecAllocSeq == InitRetrieve /\ [][NextAllocSeq]_vars

(***************************************************************************)
(* Allocation of executions by processes that run at the same time.        *)
(***************************************************************************)
NextAlloc ==
    \/ \E p \in Procs : alloc_list(p)
    \/ \E p \in Procs : alloc_mkdir(p)
    \/ \E p \in Procs : alloc_save(p)

SpecAlloc == InitRetrieve /\ [][NextAlloc]_vars

(***************************************************************************)
(* Runs that are given an execution id: one that resolves to the followed  *)
(* execution, or one that no directory matches, while one process          *)
(* allocates executions in batch_dir.                                      *)
(***************************************************************************)
ConfigIds ==
    {FollowedPath, "results", ExecutionPath(UnknownNum),
     ExecutionName(UnknownNum), ToString(UnknownNum)}

NextLookup ==
    \/ get_execution_path_call
    \/ create_next_execution_dir(1)
    \/ process_batch
    \/ retrieve_execution_batches

InitLookup ==
    /\ config \in [news_ids : Inputs, use_ids : {TRUE}, batch_size : BatchSizes,
                    execution_id : ConfigIds]
    /\ execution_info \in {m \in Manifests : m.exists}
    /\ folders = <<>>
    /\ remote = <<>>
    /\ last = NoLast
    /\ executions = NoExecutions
    /\ procs = [p \in Procs |-> IdleProc]
    /\ parent_batch_dirs = <<>>
    /\ manifest_file = ClosedFile
    /\ graph = NoGraph
    /\ loaders = NoLoaders

SpecLookup == InitLookup /\ [][NextLookup]_vars

(***************************************************************************)
(* update_execution_metadata applied to the manifest of an execution, for  *)
(* any lists of item ids.                                                  *)
(***************************************************************************)
NextRegister == update_execution_metadata_call

InitRegister ==
    /\ InitRetrieve
    /\ config.news_ids = <<>>
    /\ config.batch_size = 1

SpecRegister == InitRegister /\ [][NextRegister]_vars

(***************************************************************************)
(* One process rewriting the manifest of the followed execution while      *)
(* another reads it.                                                       *)
(***************************************************************************)
NextWrite ==
    \/ save_json_open
    \/ save_json_dump
    \/ save_json_close
    \/ get_execution_info_call
    \/ get_processed_item_ids_call

InitWrite ==
    /\ Init
    /\ execution_info.exists
    /\ config.news_ids = <<>>
    /\ config.batch_size = 1

SpecWrite == InitWrite /\ [][NextWrite]_vars

(***************************************************************************)
(* The pipeline on an execution whose manifest is missing, or is or        *)
(* becomes a file that does not parse.                                     *)
(***************************************************************************)
NextDegraded ==
    \/ submit_batch
    \/ process_batch
    \/ save_json_interrupted
    \/ get_execution_info_call
    \/ get_processed_item_ids_call

InitDegraded ==
    /\ config \in Configs
    /\ execution_info \in Manifests
    /\ manifest_file \in {[ClosedFile EXCEPT !.bytes = b] : b \in FileBytes}
    /\ folders = <<>>
    /\ remote = <<>>
    /\ last = NoLast
    /\ executions = NoExecutions
    /\ procs = [p \in Procs |-> IdleProc]
    /\ parent_batch_dirs = <<>>
    /\ graph = NoGraph
    /\ loaders = NoLoaders

SpecDegraded == InitDegraded /\ [][NextDegraded]_vars

(***************************************************************************)
(* The files of one submission, for any texts, ids, batch size and set of  *)
(* processed ids.                                                          *)
(***************************************************************************)
NextFiles == submit_batch_files

\* the arguments of the call and the ids that get_processed_item_ids finds
SubmitArgs(texts) ==
    {[texts |-> texts, item_ids |-> item_ids, batch_size |-> batch_size,
      processed_ids |-> processed_ids,
      filtered_texts |-> <<>>, filtered_item_ids |-> <<>>] :
        item_ids \in ItemIdLists(Len(texts)),
        batch_size \in BatchSizes, processed_ids \in SUBSET Ids}

InitFiles ==
    /\ config \in {c \in Configs : c.news_ids = <<>> /\ c.batch_size = 1 /\ c.use_ids}
    /\ execution_info \in {m \in Manifests : m.exists}
    /\ manifest_file = ClosedFile
    /\ folders = <<>>
    /\ remote = <<>>
    /\ \E texts \in TextLists :
         last \in {[NoLast EXCEPT !.args = a] : a \in SubmitArgs(texts)}
    /\ executions = NoExecutions
    /\ procs = [p \in Procs |-> IdleProc]
    /\ parent_batch_dirs = <<>>
    /\ graph = NoGraph
    /\ loaders = NoLoaders

SpecFiles == InitFiles /\ [][NextFiles]_vars

(***************************************************************************)
(* Every entry point of the pipeline, the task of a submission known or    *)
(* not.                                                                    *)
(***************************************************************************)
NextStatus ==
    \/ submit_for_retrieval
    \/ submit_batch_unknown_task
    \/ external_job_progress_any
    \/ check_batch_status
    \/ retrieve_batch_results
    \/ retrieve_execution_batches

SpecStatus == InitRetrieve /\ [][NextStatus]_vars

(***************************************************************************)
(* Submissions and polls whose API calls may fail, on one execution.       *)
(***************************************************************************)
NextFailure ==
    \/ submit_batch
    \/ process_batch
    \/ check_batch_status

SpecFailure == Init /\ [][NextFailure]_vars

(***************************************************************************)
(* db/neo4j_handler.Neo4jHandler.  A name is the sequence of its           *)
(* characters.                                                             *)
(***************************************************************************)
UpperChars == <<"A", "B", "C", "E", "I", "M">>
LowerChars == <<"a", "b", "c", "e", "i", "m">>

\* str.lower, character by character
lower_char(c) ==
    IF \E i \in 1..Len(UpperChars) : UpperChars[i] = c
    THEN LowerChars[CHOOSE i \in 1..Len(UpperChars) : UpperChars[i] = c]
    ELSE c

lower(name) == [i \in 1..Len(name) |-> lower_char(name[i])]

\* \s of the regular expressions, for the characters of the model
is_space(c) == c = " "

\* what matches neither \w nor \s
is_special(c) == c \in {",", ".", "-", "&"}

common_suffixes ==
    {<<"i", "n", "c">>,
     <<"i", "n", "c", "o", "r", "p", "o", "r", "a", "t", "e", "d">>,
     <<"c", "o", "r", "p">>,
     <<"c", "o", "r", "p", "o", "r", "a", "t", "i", "o", "n">>,
     <<"l", "l", "c">>, <<"l", "t", "d">>,
     <<"l", "i", "m", "i", "t", "e", "d">>,
     <<"c", "o", "m", "p", "a", "n", "y">>, <<"c", "o">>,
     <<"g", "r", "o", "u", "p">>,
     <<"h", "o", "l", "d", "i", "n", "g", "s">>, <<"p", "l", "c">>,
     <<"a", "g">>, <<"g", "m", "b", "h">>, <<"s", "a">>, <<"n", "v">>,
     <<"b", "v">>}

\* the alternatives of the pattern [\s,]+(inc|corp|co|ltd|llc)\.?$
dotted_suffixes ==
    {<<"i", "n", "c">>, <<"c", "o", "r", "p">>, <<"c", "o">>,
     <<"l", "t", "d">>, <<"l", "l", "c">>}

ends_with(name, w) ==
    Len(name) >= Len(w) /\ SubSeq(name, Len(name) - Len(w) + 1, Len(name)) = w

\* re.sub(r'[\s,]+(inc|corp|co|ltd|llc)\.?$', '', name): the match ends at
\* the end of the name and starts at the first character of the run of
\* spaces and commas before the suffix
remove_dotted_suffix(name) ==
    LET body == IF name # <<>> /\ name[Len(name)] = "."
                THEN SubSeq(name, 1, Len(name) - 1) ELSE name
        hits == {w \in dotted_suffixes :
                    /\ ends_with(body, w)
                    /\ Len(body) > Len(w)
                    /\ (is_space(body[Len(body) - Len(w)])
                          \/ body[Len(body) - Len(w)] = ",")}
    IN  IF hits = {} THEN name
        ELSE LET w == CHOOSE w \in hits : TRUE
                 k == Len(body) - Len(w)
                 start == CHOOSE i \in 1..k :
                            /\ \A j \in i..k : is_space(body[j]) \/ body[j] = ","
                            /\ i > 1 => ~(is_space(body[i - 1]) \/ body[i - 1] = ",")
             IN  SubSeq(name, 1, start - 1)

\* re.sub(r'[^\w\s]', ' ', name)
replace_special(name) ==
    [i \in 1..Len(name) |-> IF is_special(name[i]) THEN " " ELSE name[i]]

\* name.split(): the words between runs of whitespace
split(name) ==
    LET F[i \in 0..Len(name)] ==
            IF i = 0 THEN << <<>> >>
            ELSE IF is_space(name[i]) THEN Append(F[i - 1], <<>>)
                 ELSE [F[i - 1] EXCEPT ![Len(F[i - 1])] = Append(@, name[i])]
    IN  SelectSeq(F[Len(name)], LAMBDA w : w # <<>>)

\* " ".join(words)
join(words) ==
    LET J[i \in 0..Len(words)] ==
            IF i = 0 THEN <<>>
            ELSE IF i = 1 THEN words[1]
                 ELSE J[i - 1] \o <<" ">> \o words[i]
    IN  J[Len(words)]

\* only the suffixes of the pattern taken out of the words
_normalize_entity_name_dotted_only(name) ==
    IF name = <<>> THEN <<>>
    ELSE join(SelectSeq(split(replace_special(remove_dotted_suffix(lower(name)))),
                        LAMBDA word : word \notin dotted_suffixes /\ Len(word) > 1))

_normalize_entity_name(name) ==
    IF name = <<>> THEN <<>>
    ELSE join(SelectSeq(split(replace_special(remove_dotted_suffix(lower(name)))),
                        LAMBDA word : word \notin common_suffixes /\ Len(word) > 1))

\* the legal suffixes that the specification (4.6) lists
ListedSuffixes ==
    {<<"i", "n", "c">>, <<"c", "o", "r", "p">>, <<"l", "t", "d">>,
     <<"l", "l", "c">>, <<"c", "o">>, <<"g", "r", "o", "u", "p">>,
     <<"h", "o", "l", "d", "i", "n", "g", "s">>, <<"p", "l", "c">>,
     <<"a", "g">>, <<"g", "m", "b", "h">>, <<"s", "a">>, <<"n", "v">>,
     <<"b", "v">>}

NameChars == {"A", "c", "o", " ", ",", "."}

BaseNames == UNION {[1..n -> NameChars] : n \in 0..MaxNameLen}

\* _normalize_entity_name applied to a name, to the name followed by a
\* suffix, and to the name followed by a comma, the suffix and a dot
normalize_names ==
    /\ last.op = "none"
    /\ last.args # <<>>
    /\ LET n == last.args.name
           s == last.args.suffix
       IN  last' = [NoLast EXCEPT
                      !.op = "_normalize_entity_name",
                      !.args = last.args,
                      !.results =
                         [base |-> _normalize_entity_name(n),
                          spaced |-> _normalize_entity_name(n \o <<" ">> \o s),
                          dotted |-> _normalize_entity_name(
                                        n \o <<",", " ">> \o s \o <<".">>)]]
    /\ UNCHANGED <<manifest_file, graph, loaders, config, execution_info, folders, remote,
                   executions, procs, parent_batch_dirs>>

NextNormalize == normalize_names

InitNormalize ==
    /\ config \in {c \in Configs : c.news_ids = <<>> /\ c.batch_size = 1 /\ c.use_ids}
    /\ execution_info \in {m \in Manifests : m.exists}
    /\ manifest_file = ClosedFile
    /\ folders = <<>>
    /\ remote = <<>>
    /\ last \in {[NoLast EXCEPT !.args = [name |-> n, suffix |-> s]] :
                    n \in BaseNames, s \in ListedSuffixes}
    /\ executions = NoExecutions
    /\ procs = [p \in Procs |-> IdleProc]
    /\ parent_batch_dirs = <<>>
    /\ graph = NoGraph
    /\ loaders = NoLoaders

SpecNormalize == InitNormalize /\ [][NextNormalize]_vars

(***************************************************************************)
(* The entities of the graph: a node is its properties id, name and type   *)
(* and the map of its other properties.  nodes lists them in creation      *)
(* order; a MATCH without ORDER BY may return them in any order.           *)
(***************************************************************************)
\* _calculate_similarity: the Jaccard index of the two sets of words, as the
\* fraction num / den
_calculate_similarity(str1, str2) ==
    LET set1 == Range(split(str1))
        set2 == Range(split(str2))
    IN  IF set1 = {} \/ set2 = {} THEN [num |-> 0, den |-> 1]
        ELSE [num |-> Cardinality(set1 \cap set2),
              den |-> Cardinality(set1 \cup set2)]

\* `a in b` of two strings
contains(b, a) ==
    \E k \in 0..(Len(b) - Len(a)) : SubSeq(b, k + 1, k + Len(a)) = a

\* containment alone, whatever the length of the contained name
is_candidate_of_any_length(normalized_name, candidate_normalized) ==
    \/ contains(candidate_normalized, normalized_name)
    \/ contains(normalized_name, candidate_normalized)

\* the containment test of the fuzzy pass
is_candidate(normalized_name, candidate_normalized) ==
    \/ contains(candidate_normalized, normalized_name) /\ Len(normalized_name) > 3
    \/ contains(normalized_name, candidate_normalized)
         /\ Len(candidate_normalized) > 3

\* similarity >= 0.5
at_threshold(similarity) == 2 * similarity.num >= similarity.den

\* similarity > 0.5
above_threshold(similarity) == 2 * similarity.num > similarity.den

NoMatch == [pass |-> "none", id |-> None]

\* the nodes whose raw name and type are those of the entity
exact_matches(nodes, entity_data) ==
    {i \in 1..Len(nodes) :
        nodes[i].name = entity_data.name /\ nodes[i].type = entity_data.type}

\* the names of the entities that the documents mention; <<>> is an entity
\* without a name
EntityNames ==
    {<<>>, <<"I", "B", "M">>,
     <<"I", "B", "M", " ", "C", "o", "r", "p">>,
     <<"A", "c", "m", "e">>,
     <<"A", "c", "m", "e", " ", "I", "n", "c">>,
     <<"a", "c", "m", "e", " ", "b", "a", "n", "k">>,
     <<"a", "c", "m", "e", " ", "b", "a", "n", "k", " ", "e", "u">>}

\* _normalize_entity_name of the names of the entities, computed once
normalized_names == [name \in EntityNames |-> _normalize_entity_name(name)]

\* the containment test and the similarity of every two names, computed once
compared_names ==
    [name \in EntityNames, candidate_name \in EntityNames |->
        [candidate |-> is_candidate(normalized_names[name],
                                    normalized_names[candidate_name]),
         similarity |-> _calculate_similarity(normalized_names[name],
                                              normalized_names[candidate_name])]]

\* the nodes the loop of the fuzzy pass may end with as best match: those
\* that pass the containment test with the highest similarity, when that is
\* above 0 (`similarity > best_similarity`; any of them by the order of the
\* query's records)
best_matches(nodes, entity_data) ==
    LET similarity(i) == compared_names[entity_data.name, nodes[i].name].similarity
        candidates ==
            {i \in 1..Len(nodes) :
                /\ nodes[i].type = entity_data.type
                /\ compared_names[entity_data.name, nodes[i].name].candidate
                /\ similarity(i).num > 0}
    IN  {i \in candidates :
            \A j \in candidates :
                similarity(j).num * similarity(i).den
                    <= similarity(i).num * similarity(j).den}

\* the fuzzy pass first, the exact match only when it finds nothing
find_matching_entity_fuzzy_first(nodes, entity_data) ==
    LET normalized_name == normalized_names[entity_data.name]
        best == best_matches(nodes, entity_data)
        accepted ==
            {i \in best :
                above_threshold(
                    compared_names[entity_data.name, nodes[i].name].similarity)}
    IN  IF entity_data.name = <<>> THEN {NoMatch}
        ELSE IF Len(normalized_name) > 2 /\ accepted # {}
        THEN {[pass |-> "fuzzy", id |-> nodes[i].id] : i \in accepted}
        ELSE IF exact_matches(nodes, entity_data) # {}
        THEN {[pass |-> "exact", id |-> nodes[i].id] :
                 i \in exact_matches(nodes, entity_data)}
        ELSE {NoMatch}

\* find_matching_entity: what it may return, and by which pass
find_matching_entity(nodes, entity_data) ==
    LET normalized_name == normalized_names[entity_data.name]
        best == best_matches(nodes, entity_data)
        accepted ==
            {i \in best :
                above_threshold(
                    compared_names[entity_data.name, nodes[i].name].similarity)}
    IN  IF entity_data.name = <<>> THEN {NoMatch}
        ELSE IF exact_matches(nodes, entity_data) # {}
        THEN {[pass |-> "exact", id |-> nodes[i].id] :
                 i \in exact_matches(nodes, entity_data)}
        ELSE IF Len(normalized_name) > 2 /\ accepted # {}
        THEN {[pass |-> "fuzzy", id |-> nodes[i].id] : i \in accepted}
        ELSE {NoMatch}

\* str(v) of an attribute value
str(v) == IF v = None THEN "None" ELSE v

\* SET e.<key> = str(value) for every key of attributes
set_attributes(old, attributes) ==
    [k \in DOMAIN old \cup DOMAIN attributes |->
        IF k \in DOMAIN attributes THEN str(attributes[k]) ELSE old[k]]

_update_entity_attributes(nodes, entity_id, entity_data) ==
    [i \in 1..Len(nodes) |->
        IF nodes[i].id = entity_id
        THEN [nodes[i] EXCEPT
                !.attributes = set_attributes(@, entity_data.attributes),
                !.name = IF entity_data.name # <<>> THEN entity_data.name ELSE @]
        ELSE nodes[i]]

\* a node created only when no node has the name and the type of the entity
_create_new_entity_unless_named(nodes, entity_data) ==
    IF \E i \in 1..Len(nodes) :
          nodes[i].name = entity_data.name /\ nodes[i].type = entity_data.type
    THEN nodes
    ELSE Append(nodes,
                [id |-> entity_data.id, name |-> entity_data.name,
                 type |-> entity_data.type,
                 attributes |-> set_attributes(<<>>, entity_data.attributes)])

\* MERGE (e:Entity {id: $id}), then name, type and the attributes set
_create_new_entity(nodes, entity_data) ==
    IF \E i \in 1..Len(nodes) : nodes[i].id = entity_data.id
    THEN [i \in 1..Len(nodes) |->
            IF nodes[i].id = entity_data.id
            THEN [nodes[i] EXCEPT
                    !.attributes = set_attributes(@, entity_data.attributes),
                    !.name = entity_data.name,
                    !.type = entity_data.type]
            ELSE nodes[i]]
    ELSE Append(nodes,
                [id |-> entity_data.id, name |-> entity_data.name,
                 type |-> entity_data.type,
                 attributes |-> set_attributes(<<>>, entity_data.attributes)])

EntityTypes == {"Company", "Person"}

\* f"{filename}_{original_id}" of process_json_file
EntityIdNames == <<"doc_e1", "doc_e2", "doc_e3", "doc_e4", "doc_e5">>

\* the id of the next entity of the documents: each has its own
next_entity_id == EntityIdNames[Len(graph.nodes) + 1]

NoAttributes == <<>>

\* the entities of the documents, before process_json_file gives them an id
Entities == [name : EntityNames, type : EntityTypes, attributes : {NoAttributes}]

\* entity["id"] = temp_id
with_id(entity, temp_id) ==
    [id |-> temp_id, name |-> entity.name, type |-> entity.type,
     attributes |-> entity.attributes]

\* insert_entity(entity_data)
insert_entity_call(entity_data) ==
    \E found \in find_matching_entity(graph.nodes, entity_data) :
        /\ Len(graph.nodes) + graph.disambiguation_count < MaxInserts
        /\ IF found.id # None
           THEN /\ graph' =
                     [graph EXCEPT
                        !.nodes = _update_entity_attributes(@, found.id,
                                                            entity_data),
                        !.disambiguation_count = @ + 1]
                /\ last' = [NoLast EXCEPT !.op = "insert_entity",
                                          !.args = entity_data,
                                          !.status = found.pass,
                                          !.returned = {found.id}]
           ELSE /\ graph' =
                     [graph EXCEPT
                        !.nodes = _create_new_entity(graph.nodes, entity_data)]
                /\ last' = [NoLast EXCEPT !.op = "insert_entity",
                                          !.args = entity_data,
                                          !.status = "created",
                                          !.returned = {entity_data.id}]
        /\ UNCHANGED <<manifest_file, loaders, config, execution_info, folders, remote,
                       executions, procs, parent_batch_dirs>>

\* insert_entity as process_json_file calls it, for an entity with no
\* attributes
insert_entity ==
    \E entity \in Entities : insert_entity_call(with_id(entity, next_entity_id))

NextResolve == insert_entity

InitResolve ==
    /\ config \in {c \in Configs : c.news_ids = <<>> /\ c.batch_size = 1 /\ c.use_ids}
    /\ execution_info \in {m \in Manifests : m.exists}
    /\ manifest_file = ClosedFile
    /\ folders = <<>>
    /\ remote = <<>>
    /\ last = NoLast
    /\ executions = NoExecutions
    /\ procs = [p \in Procs |-> IdleProc]
    /\ parent_batch_dirs = <<>>
    /\ graph = NoGraph
    /\ loaders = NoLoaders

SpecResolve == InitResolve /\ [][NextResolve]_vars

(***************************************************************************)
(* Entities with attributes: inserted, and merged into an entity of the    *)
(* graph by _update_entity_attributes.                                     *)
(***************************************************************************)
AttrKeys == {"sector"}

AttrValues == {"tech", "bank"}

\* the "attributes" of an entity: some keys, each with a value or null
Attributes ==
    UNION {[keys -> AttrValues \cup {None}] : keys \in SUBSET AttrKeys}

AttributedEntities ==
    [name : {<<>>, <<"a", "c", "m", "e", " ", "b", "a", "n", "k">>, <<"a", "c", "m", "e", " ", "b", "a", "n", "k", " ", "e", "u">>},
     type : {"Company"}, attributes : Attributes]

insert_attributed_entity ==
    \E entity \in AttributedEntities :
        insert_entity_call(with_id(entity, next_entity_id))

\* _update_entity_attributes(entity_id, entity_data) for an entity of the graph
update_entity_attributes_call ==
    \E i \in 1..Len(graph.nodes) : \E entity \in AttributedEntities :
        LET entity_data == with_id(entity, next_entity_id)
        IN  /\ graph' = [graph EXCEPT
                           !.nodes = _update_entity_attributes(
                                        @, graph.nodes[i].id, entity_data)]
            /\ last' = [NoLast EXCEPT !.op = "_update_entity_attributes",
                                      !.args = entity_data,
                                      !.status = "updated",
                                      !.returned = {graph.nodes[i].id}]
            /\ UNCHANGED <<manifest_file, loaders, config, execution_info, folders, remote,
                           executions, procs, parent_batch_dirs>>

NextMerge ==
    \/ insert_attributed_entity
    \/ update_entity_attributes_call

SpecMerge == InitResolve /\ [][NextMerge]_vars

(***************************************************************************)
(* The entities of result files, with the ids process_json_file gives      *)
(* them: the name of the file and the id the document gave the entity.     *)
(***************************************************************************)
\* os.path.splitext(os.path.basename(json_file_path))[0] of the result files
Filenames == {"result_0", "result_1"}

\* entity.get("id", "") of the entities of a document
OriginalIds == {"e1", "e2"}

\* temp_id = f"{filename}_{original_id}"
temp_id(filename, original_id) == filename \o "_" \o original_id

\* one pass of the loop over the entities of process_json_file
insert_document_entity ==
    \E filename \in Filenames : \E original_id \in OriginalIds :
        \E entity \in Entities :
            insert_entity_call(with_id(entity, temp_id(filename, original_id)))

NextInsert == insert_document_entity

SpecInsert == InitResolve /\ [][NextInsert]_vars

(***************************************************************************)
(* Loaders that insert into one database at once: find_matching_entity     *)
(* and what follows it in insert_entity are sessions of their own.         *)
(***************************************************************************)
\* the result file a loader loads: each its own
loader_filename(l) == "result_" \o ToString(l - 1)

\* existing_id = self.find_matching_entity(entity_data), for the entity e1 of
\* the loader's file
find_matching_entity_step(l) ==
    /\ loaders[l].pc = "idle"
    /\ \E entity \in Entities :
         LET entity_data == with_id(entity, temp_id(loader_filename(l), "e1"))
         IN  \E found \in find_matching_entity(graph.nodes, entity_data) :
                 loaders' = [loaders EXCEPT
                               ![l] = [pc |-> "found",
                                       entity_data |-> entity_data,
                                       existing_id |-> found.id]]
    /\ UNCHANGED <<manifest_file, graph, config, execution_info, folders, remote,
                   last, executions, procs, parent_batch_dirs>>

\* the rest of insert_entity: the update of the entity found, or the create
insert_entity_step(l) ==
    LET entity_data == loaders[l].entity_data
        existing_id == loaders[l].existing_id
    IN  /\ loaders[l].pc = "found"
        /\ IF existing_id # None
           THEN /\ graph' =
                     [graph EXCEPT
                        !.nodes = _update_entity_attributes(@, existing_id,
                                                            entity_data),
                        !.disambiguation_count = @ + 1]
                /\ last' = [NoLast EXCEPT !.op = "insert_entity",
                                          !.args = entity_data,
                                          !.status = "matched",
                                          !.returned = {existing_id}]
           ELSE /\ graph' =
                     [graph EXCEPT
                        !.nodes = _create_new_entity(graph.nodes, entity_data)]
                /\ last' = [NoLast EXCEPT !.op = "insert_entity",
                                          !.args = entity_data,
                                          !.status = "created",
                                          !.returned = {entity_data.id}]
        /\ loaders' = [loaders EXCEPT ![l].pc = "done"]
        /\ UNCHANGED <<manifest_file, config, execution_info, folders, remote,
                       executions, procs, parent_batch_dirs>>

NextRace ==
    \E l \in Loaders :
        \/ find_matching_entity_step(l)
        \/ insert_entity_step(l)

SpecRace == InitResolve /\ [][NextRace]_vars

(***************************************************************************)
(* Relationships, and process_json_file pass by pass: every session.run    *)
(* is a transaction of its own, so what a pass of the loops has written is *)
(* in the database when the next pass starts.                              *)
(***************************************************************************)
RelationshipTypes == {"owns", "OWNS", ""}

\* relationship_data.get("type", "").upper()
upper(rel_type) == IF rel_type = "owns" THEN "OWNS" ELSE rel_type

\* the query of insert_relationship is no Cypher when the type is empty:
\* session.run raises
query_raises(relationship_data) == upper(relationship_data.type) = ""

has_node(nodes, entity_id) == \E i \in 1..Len(nodes) : nodes[i].id = entity_id

\* the edges that MATCH (source)-[r:TYPE]->(target) finds
matched_edges(edges, source_id, rel_type, target_id) ==
    {k \in 1..Len(edges) :
        /\ edges[k].source = source_id
        /\ edges[k].type = rel_type
        /\ edges[k].target = target_id}

\* an edge is created whenever the endpoints exist, also when there is one
insert_relationship_create(g, relationship_data) ==
    LET rel_id == relationship_data.id
        rel_type == upper(relationship_data.type)
        source_id == relationship_data.source
        target_id == relationship_data.target
    IN  IF ~has_node(g.nodes, source_id) \/ ~has_node(g.nodes, target_id)
        THEN g.edges
        ELSE Append(g.edges,
                    [source |-> source_id, type |-> rel_type,
                     target |-> target_id,
                     id |-> IF rel_id # "" THEN rel_id ELSE None,
                     attributes |->
                         set_attributes(<<>>, relationship_data.attributes)])

\* insert_relationship(relationship_data), the query accepted: MERGE of the
\* edge between the two entities, SET of every attribute, SET of the id
insert_relationship(g, relationship_data) ==
    LET rel_id == relationship_data.id
        rel_type == upper(relationship_data.type)
        source_id == relationship_data.source
        target_id == relationship_data.target
        merged ==
            IF matched_edges(g.edges, source_id, rel_type, target_id) # {}
            THEN g.edges
            ELSE Append(g.edges,
                        [source |-> source_id, type |-> rel_type,
                         target |-> target_id, id |-> None,
                         attributes |-> <<>>])
    IN  IF ~has_node(g.nodes, source_id) \/ ~has_node(g.nodes, target_id)
        THEN g.edges
        ELSE [k \in 1..Len(merged) |->
                IF k \in matched_edges(merged, source_id, rel_type, target_id)
                THEN [merged[k] EXCEPT
                        !.attributes =
                            set_attributes(@, relationship_data.attributes),
                        !.id = IF rel_id # "" THEN rel_id ELSE @]
                ELSE merged[k]]

\* the entities of a result file: the id the document gives each, its name
DocumentEntities ==
    [id : OriginalIds,
     name : {<<"a", "c", "m", "e", " ", "b", "a", "n", "k">>,
             <<"a", "c", "m", "e", " ", "b", "a", "n", "k", " ", "e", "u">>},
     type : {"Company"}, attributes : {NoAttributes}]

\* the relationships of a result file; e9 is the id of no entity of the file
DocumentRelationships ==
    [id : {"r1"}, type : {"owns", ""}, source : {"e1", "e9"},
     target : {"e2", "e9"}, attributes : {NoAttributes}]

\* data = json.load(file) of a result file
Documents ==
    [entities : UNION {[1..n -> DocumentEntities] : n \in 0..MaxEntities},
     relationships :
         UNION {[1..n -> DocumentRelationships] : n \in 0..MaxRelationships}]

\* process_json_file(json_file_path) of a loader, before the loop over the
\* entities
FileLoader(filename, data) ==
    [pc |-> "entities", filename |-> filename, data |-> data, pos |-> 1,
     entity_id_mapping |-> <<>>, processed_rels |-> 0]

\* the id of an unresolved reference is the reference
entity_id_mapping_get_or_key(entity_id_mapping, original_id) == original_id

\* entity_id_mapping.get(original_id)
entity_id_mapping_get(entity_id_mapping, original_id) ==
    IF original_id \in DOMAIN entity_id_mapping
    THEN entity_id_mapping[original_id]
    ELSE None

\* one pass of `for entity in entities`
process_entity(l) ==
    LET loader == loaders[l]
        entity == loader.data.entities[loader.pos]
        original_id == entity.id
        entity_data == with_id(entity, temp_id(loader.filename, original_id))
    IN  /\ loader.pc = "entities"
        /\ loader.pos <= Len(loader.data.entities)
        /\ \E found \in find_matching_entity(graph.nodes, entity_data) :
             LET final_id == IF found.id # None THEN found.id ELSE entity_data.id
             IN  /\ graph' =
                      IF found.id # None
                      THEN [graph EXCEPT
                              !.nodes = _update_entity_attributes(
                                            @, found.id, entity_data),
                              !.disambiguation_count = @ + 1]
                      ELSE [graph EXCEPT
                              !.nodes = _create_new_entity(@, entity_data)]
                 /\ loaders' =
                      [loaders EXCEPT
                         ![l].pos = @ + 1,
                         ![l].entity_id_mapping =
                             [k \in DOMAIN @ \cup {original_id} |->
                                 IF k = original_id THEN final_id ELSE @[k]]]
                 /\ last' = [NoLast EXCEPT !.op = "insert_entity",
                                           !.args = entity_data,
                                           !.returned = {final_id}]
        /\ UNCHANGED <<manifest_file, config, execution_info, folders, remote,
                       executions, procs, parent_batch_dirs>>

\* relationships = data.get("relationships", []); processed_rels = 0
process_relationships_start(l) ==
    /\ loaders[l].pc = "entities"
    /\ loaders[l].pos > Len(loaders[l].data.entities)
    /\ loaders' = [loaders EXCEPT ![l].pc = "relationships", ![l].pos = 1]
    /\ UNCHANGED <<manifest_file, graph, config, execution_info, folders, remote,
                   last, executions, procs, parent_batch_dirs>>

\* one pass of `for relationship in relationships`; an error of the query
\* ends process_json_file in its except branch
process_relationship(l) ==
    LET loader == loaders[l]
        relationship == loader.data.relationships[loader.pos]
        source_id == entity_id_mapping_get(loader.entity_id_mapping,
                                           relationship.source)
        target_id == entity_id_mapping_get(loader.entity_id_mapping,
                                           relationship.target)
        relationship_data ==
            [relationship EXCEPT
               !.id = temp_id(loader.filename, relationship.id),
               !.source = source_id, !.target = target_id]
    IN  /\ loader.pc = "relationships"
        /\ loader.pos <= Len(loader.data.relationships)
        /\ IF source_id # None /\ target_id # None
           THEN IF query_raises(relationship_data)
                THEN /\ loaders' = [loaders EXCEPT ![l].pc = "failed"]
                     /\ last' = [NoLast EXCEPT !.op = "process_json_file",
                                               !.args = relationship_data,
                                               !.status = "failed",
                                               !.error = TRUE]
                     /\ UNCHANGED graph
                ELSE /\ graph' =
                          [graph EXCEPT
                             !.edges = insert_relationship(graph,
                                                          relationship_data)]
                     /\ loaders' = [loaders EXCEPT ![l].pos = @ + 1,
                                                   ![l].processed_rels = @ + 1]
                     /\ last' = [NoLast EXCEPT !.op = "insert_relationship",
                                               !.args = relationship_data]
           ELSE /\ loaders' = [loaders EXCEPT ![l].pos = @ + 1]
                /\ last' = [NoLast EXCEPT !.op = "dropped",
                                          !.args = relationship]
                /\ UNCHANGED graph
        /\ UNCHANGED <<manifest_file, config, execution_info, folders, remote,
                       executions, procs, parent_batch_dirs>>

\* return True, f"Processed {len(entities)} entities ... and
\* {processed_rels} relationships"
process_json_file_return(l) ==
    /\ loaders[l].pc = "relationships"
    /\ loaders[l].pos > Len(loaders[l].data.relationships)
    /\ loaders' = [loaders EXCEPT ![l].pc = "done"]
    /\ last' = [NoLast EXCEPT !.op = "process_json_file", !.status = "ok",
                              !.returned = {loaders[l].processed_rels}]
    /\ UNCHANGED <<manifest_file, graph, config, execution_info, folders, remote,
                   executions, procs, parent_batch_dirs>>

NextLoad ==
    \/ process_entity(1)
    \/ process_relationships_start(1)
    \/ process_relationship(1)
    \/ process_json_file_return(1)

\* one result file, read, and an empty database
InitLoad ==
    /\ config \in {c \in Configs : c.news_ids = <<>> /\ c.batch_size = 1 /\ c.use_ids}
    /\ execution_info \in {m \in Manifests : m.exists}
    /\ manifest_file = ClosedFile
    /\ folders = <<>>
    /\ remote = <<>>
    /\ last = NoLast
    /\ executions = NoExecutions
    /\ procs = [p \in Procs |-> IdleProc]
    /\ parent_batch_dirs = <<>>
    /\ graph = NoGraph
    /\ \E data \in Documents :
         loaders = [l \in Loaders |->
                      IF l = 1 THEN FileLoader("result_0", data) ELSE IdleLoader]

SpecLoad == InitLoad /\ [][NextLoad]_vars

(***************************************************************************)
(* insert_relationship on its own, between the entities of a graph.        *)
(***************************************************************************)
\* a database with two entities, as _create_new_entity leaves it
TwoEntities ==
    _create_new_entity(
        _create_new_entity(<<>>,
            [id |-> "result_0_e1", name |-> <<"I", "B", "M">>,
             type |-> "Company", attributes |-> NoAttributes]),
        [id |-> "result_0_e2", name |-> <<"A", "c", "m", "e">>,
         type |-> "Company", attributes |-> NoAttributes])

\* the relationship_data of a call: with an id or without, between entities
\* of the graph or from an id that no entity has
Relationships ==
    [id : {"", "result_0_r1", "result_1_r1"}, type : RelationshipTypes,
     source : {"result_0_e1", "result_0_e9"},
     target : {"result_0_e1", "result_0_e2"}, attributes : Attributes]

\* insert_relationship(relationship_data)
insert_relationship_call ==
    \E relationship_data \in Relationships :
        /\ IF query_raises(relationship_data)
           THEN /\ last' = [NoLast EXCEPT !.op = "insert_relationship",
                                          !.args = relationship_data,
                                          !.raised = "CypherSyntaxError"]
                /\ UNCHANGED graph
           ELSE /\ graph' = [graph EXCEPT
                               !.edges = insert_relationship(graph,
                                                            relationship_data)]
                /\ last' = [NoLast EXCEPT !.op = "insert_relationship",
                                          !.args = relationship_data]
        /\ UNCHANGED <<manifest_file, loaders, config, execution_info, folders,
                       remote, executions, procs, parent_batch_dirs>>

NextRelate == insert_relationship_call

InitRelate ==
    /\ config \in {c \in Configs : c.news_ids = <<>> /\ c.batch_size = 1 /\ c.use_ids}
    /\ execution_info \in {m \in Manifests : m.exists}
    /\ manifest_file = ClosedFile
    /\ folders = <<>>
    /\ remote = <<>>
    /\ last = NoLast
    /\ executions = NoExecutions
    /\ procs = [p \in Procs |-> IdleProc]
    /\ parent_batch_dirs = <<>>
    /\ graph = [NoGraph EXCEPT !.nodes = TwoEntities]
    /\ loaders = NoLoaders

SpecRelate == InitRelate /\ [][NextRelate]_vars

(***************************************************************************)
(* process_execution_batches: the batch folders of an execution loaded     *)
(* into the graph, file by file.  What process_json_file does with a file  *)
(* is above; here a file is one that it loads (True) or one that it fails  *)
(* on (False), and the calls are listed in the order they are made.        *)
(***************************************************************************)
\* metadata.json of a batch folder as the loader meets it: absent, not JSON,
\* or read, with saved_to_neo4j or without
LoadMetadata ==
    {[exists |-> FALSE, readable |-> FALSE, saved_to_neo4j |-> FALSE]}
      \cup [exists : {TRUE}, readable : {FALSE}, saved_to_neo4j : {FALSE}]
      \cup [exists : {TRUE}, readable : {TRUE}, saved_to_neo4j : BOOLEAN]

\* what process_json_file returns for the *.json files of results/
JsonFiles == UNION {[1..n -> BOOLEAN] : n \in 0..MaxBatchSize}

\* the batch folders of the execution: results/ is there or not
LoadFolders ==
    [meta : LoadMetadata, results_dir : {TRUE}, json_files : JsonFiles]
      \cup [meta : LoadMetadata, results_dir : {FALSE}, json_files : {<<>>}]

\* metadata.get("saved_to_neo4j", False) of a metadata.json that was read
already_loaded(folder) ==
    folder.meta.exists /\ folder.meta.readable /\ folder.meta.saved_to_neo4j

\* the loop over the files ends at the first file that fails
attempted_until_failure(json_files) ==
    {j \in 1..Len(json_files) : \A i \in 1..(j - 1) : json_files[i]}

\* the files `for json_file in json_files` calls process_json_file on
attempted_files(json_files) == 1..Len(json_files)

\* batch_success after the loop over the files
batch_success(json_files) ==
    \A j \in attempted_files(json_files) : json_files[j]

\* the status that batches_list gets for a batch folder
batch_status(folder) ==
    IF already_loaded(folder) THEN "already_loaded"
    ELSE IF ~folder.results_dir \/ folder.json_files = <<>> THEN "skipped"
    ELSE IF batch_success(folder.json_files) THEN "loaded"
    ELSE "partially_failed"

\* the calls of process_json_file for a batch folder
batch_calls(b, folder) ==
    IF batch_status(folder) \in {"already_loaded", "skipped"} THEN {}
    ELSE {<<b, j>> : j \in attempted_files(folder.json_files)}

\* metadata["saved_to_neo4j"] = True and the dump, when the batch is loaded
\* and metadata.json exists
loaded_metadata(folder) ==
    IF batch_status(folder) = "loaded" /\ folder.meta.exists
    THEN [folder.meta EXCEPT !.readable = TRUE, !.saved_to_neo4j = TRUE]
    ELSE folder.meta

\* the number of batch folders with a status
count_status(status) ==
    Cardinality({b \in 1..Len(folders) : batch_status(folders[b]) = status})

\* process_execution_batches(execution_id, config, neo4j_handler)
process_execution_batches ==
    /\ folders' = [b \in 1..Len(folders) |->
                     [folders[b] EXCEPT !.meta = loaded_metadata(folders[b])]]
    /\ last' = [NoLast EXCEPT
                  !.op = "process_execution_batches",
                  !.results = [b \in 1..Len(folders) |-> batch_status(folders[b])],
                  !.sent = UNION {batch_calls(b, folders[b]) :
                                     b \in 1..Len(folders)},
                  !.returned =
                      [processed_batches |-> Len(folders),
                       loaded_to_neo4j |-> count_status("loaded"),
                       already_loaded |-> count_status("already_loaded"),
                       skipped |-> count_status("skipped"),
                       failed |-> count_status("partially_failed")]]
    /\ UNCHANGED <<manifest_file, graph, loaders, config, execution_info, remote,
                   executions, procs, parent_batch_dirs>>

NextGraphLoad == process_execution_batches

\* an execution whose batches were retrieved, or not, and loaded, or not
InitGraphLoad ==
    /\ config \in {c \in Configs : c.news_ids = <<>> /\ c.batch_size = 1 /\ c.use_ids}
    /\ execution_info \in {m \in Manifests : m.exists}
    /\ manifest_file = ClosedFile
    /\ folders \in UNION {[1..n -> LoadFolders] : n \in 0..MaxBatches}
    /\ remote = <<>>
    /\ last = NoLast
    /\ executions = NoExecutions
    /\ procs = [p \in Procs |-> IdleProc]
    /\ parent_batch_dirs = <<>>
    /\ graph = NoGraph
    /\ loaders = NoLoaders

SpecGraphLoad == InitGraphLoad /\ [][NextGraphLoad]_vars

(***************************************************************************)
(* The names of the result files of a batch, the custom ids taken as the   *)
(* strings they are: item_<i> of submit_batch, or the caller's.            *)
(***************************************************************************)
\* s.replace(old, ""): every occurrence of old, from the left, taken out
RECURSIVE replace(_, _)
replace(s, old) ==
    IF Len(s) < Len(old) THEN s
    ELSE IF SubSeq(s, 1, Len(old)) = old
    THEN replace(SubSeq(s, Len(old) + 1, Len(s)), old)
    ELSE <<Head(s)>> \o replace(Tail(s), old)

\* index = item_id.replace("item_", "")
result_file_index(item_id) == replace(item_id, <<"i", "t", "e", "m", "_">>)

\* f"result_{index}.json"
result_file(item_id) ==
    <<"r", "e", "s", "u", "l", "t", "_">> \o result_file_index(item_id)
        \o <<".", "j", "s", "o", "n">>

\* the ids of the items of a batch: those submit_batch generates for the
\* positions, and ids as a caller may have for its items
CustomIds ==
    {<<"i", "t", "e", "m", "_", "0">>, <<"i", "t", "e", "m", "_", "1">>,
     <<"i", "t", "e", "m", "_", "2">>, <<"i", "t", "e", "m", "_", "3">>,
     <<"0">>, <<"1">>, <<"a">>, <<"n", "1">>,
     <<"n", "i", "t", "e", "m", "_", "1">>}

\* the custom ids of the lines of an output file: each item once
CustomIdLists ==
    {ids \in UNION {[1..n -> CustomIds] : n \in 1..MaxItems} :
        \A i, j \in 1..Len(ids) : ids[i] = ids[j] => i = j}

\* the loop of process_batch_results over the lines of a batch: the result
\* file of every item
result_files ==
    /\ last.op = "none"
    /\ last.args # <<>>
    /\ last' = [last EXCEPT
                  !.op = "process_batch_results",
                  !.results = [i \in 1..Len(last.args) |->
                                  [item_id |-> last.args[i],
                                   result_file |-> result_file(last.args[i])]]]
    /\ UNCHANGED <<manifest_file, graph, loaders, config, execution_info, folders,
                   remote, executions, procs, parent_batch_dirs>>

NextNaming == result_files

InitNaming ==
    /\ config \in {c \in Configs : c.news_ids = <<>> /\ c.batch_size = 1 /\ c.use_ids}
    /\ execution_info \in {m \in Manifests : m.exists}
    /\ manifest_file = ClosedFile
    /\ folders = <<>>
    /\ remote = <<>>
    /\ last \in {[NoLast EXCEPT !.args = ids] : ids \in CustomIdLists}
    /\ executions = NoExecutions
    /\ procs = [p \in Procs |-> IdleProc]
    /\ parent_batch_dirs = <<>>
    /\ graph = NoGraph
    /\ loaders = NoLoaders

SpecNaming == InitNaming /\ [][NextNaming]_vars

(***************************************************************************)
(* The loop that waits for a batch: check_batch_status, then the exit on   *)
(* an error or on completed, else time.sleep and the next check.           *)
(***************************************************************************)
\* the process that waits, at the head of the loop for the batch of a folder
Waiting(b) == [pc |-> "polling", batch |-> b]

\* wait_for_completion is set and submit_batch returned a batch_id
wait_start ==
    \E b \in 1..Len(folders) :
        /\ procs[1] = IdleProc
        /\ folders[b].meta.exists
        /\ procs' = [procs EXCEPT ![1] = Waiting(b)]
        /\ UNCHANGED <<manifest_file, graph, loaders, config, execution_info,
                       folders, remote, last, executions, parent_batch_dirs>>

\* status_info = check_batch_status(batch_id); `if "error" in status_info:
\* break`; `if status_info.get("completed", False)`: on to the retrieval;
\* else on to the sleep
wait_check ==
    \E poll \in ApiOutcomes :
        /\ procs[1].pc = "polling"
        /\ LET b == procs[1].batch
               job == remote[folders[b].meta.batch_id]
               call == [NoLast EXCEPT !.op = "check_batch_status", !.batch = b,
                                      !.api = 1]
           IN  IF poll = "error"
               THEN /\ last' = [call EXCEPT !.status = "failed", !.error = TRUE,
                                            !.api_failed = TRUE]
                    /\ procs' = [procs EXCEPT ![1].pc = "stopped"]
                    /\ UNCHANGED folders
               ELSE /\ folders' = [folders EXCEPT
                                     ![b].meta = checked_metadata(@, job.status)]
                    /\ last' = [call EXCEPT !.status = job.status]
                    /\ procs' = [procs EXCEPT
                                   ![1].pc = IF status_completed(job.status)
                                             THEN "retrieve" ELSE "sleeping"]
        /\ UNCHANGED <<manifest_file, graph, loaders, config, execution_info,
                       remote, executions, parent_batch_dirs>>

\* time.sleep(wait_time), and the loop starts over
wait_sleep ==
    /\ procs[1].pc = "sleeping"
    /\ procs' = [procs EXCEPT ![1].pc = "polling"]
    /\ UNCHANGED <<manifest_file, graph, loaders, config, execution_info, folders,
                   remote, last, executions, parent_batch_dirs>>

NextWait ==
    \/ submit_for_retrieval
    \/ external_job_progress
    \/ wait_start
    \/ wait_check
    \/ wait_sleep

\* the process that waits runs on: a check that is due is made, a sleep ends
SpecWait ==
    /\ InitRetrieve
    /\ [][NextWait]_vars
    /\ WF_vars(wait_check)
    /\ WF_vars(wait_sleep)

(***************************************************************************)
(* runners/run_retrieve_batch.retrieve_execution_batches as one call: the  *)
(* loop over every batch folder of the execution directory, the counters   *)
(* of the summary and its return.  A dict is a function of its keys.       *)
(***************************************************************************)
\* dict.get(key, default)
get(dict, key, default) == IF key \in DOMAIN dict THEN dict[key] ELSE default

\* the dict retrieve_batch_items returns for a folder, and the folder it
\* leaves: status_info of the poll for a job that is not completed, and
\* {error, batch_id, status: failed} for a call of the API that raised
retrieve_batch_items_return(b, folder, job, poll, download) ==
    LET checked == checked_metadata(folder.meta, job.status)
        p == process_batch_results(job.output, checked.original_texts, folder.results)
    IN  IF folder.meta.retrieved
        THEN [folder |-> folder,
              result |-> [status |-> "already_retrieved"]]
        ELSE IF poll = "error"
        THEN [folder |-> folder,
              result |-> [error |-> "poll", batch_id |-> b, status |-> "failed"]]
        ELSE IF ~status_completed(job.status)
        THEN [folder |-> [folder EXCEPT !.meta = checked],
              result |-> [batch_id |-> b, status |-> job.status,
                          completed |-> status_completed(job.status)]]
        ELSE IF ~folder.output_file /\ download = "error"
        THEN [folder |-> [folder EXCEPT !.meta = checked],
              result |-> [error |-> "download", batch_id |-> b, status |-> "failed"]]
        ELSE [folder |-> [folder EXCEPT !.meta = retrieved_metadata(checked, p.results),
                                        !.output_file = TRUE,
                                        !.results = p.files],
              result |-> [batch_id |-> b, status |-> "completed",
                          n_results |-> Len(p.results)]]

\* results before the loop
NoResults ==
    [processed_batches |-> 0, already_retrieved |-> 0, newly_retrieved |-> 0,
     failed |-> 0, pending |-> 0, batches |-> <<>>]

\* the branch of the if/elif chain that counts retrieve_result
counted_under(retrieve_result) ==
    IF get(retrieve_result, "status", None) = "completed" THEN "newly_retrieved"
    ELSE IF get(retrieve_result, "status", None) = "already_retrieved"
    THEN "already_retrieved"
    ELSE IF ~get(retrieve_result, "completed", FALSE) THEN "pending"
    ELSE "failed"

\* results[counter] += 1 and batches_list.append(...); the entry keeps the
\* dict it was made from
counted(results, counter, b, retrieve_result) ==
    [results EXCEPT ![counter] = @ + 1,
                    !.batches = Append(@, [batch_id |-> b, status |-> counter,
                                           retrieve_result |-> retrieve_result])]

\* the orders os.listdir may give the n batch folders in
listdir(n) ==
    {order \in [1..n -> 1..n] : \A i, j \in 1..n : order[i] = order[j] => i = j}

\* The loop from the k-th folder of the listing on.  bound: batch_id was
\* assigned in an earlier round; the except handler formats batch_id and
\* raises UnboundLocalError when it was not.
RECURSIVE batch_dirs_loop(_, _, _, _, _, _, _)
batch_dirs_loop(k, order, fs, polls, downloads, results, bound) ==
    IF k > Len(fs)
    THEN [raised |-> "", folders |-> fs,
          results |-> [results EXCEPT !.processed_batches = Len(fs)]]
    ELSE LET b == order[k]
             r == retrieve_batch_items_return(b, fs[b], remote[fs[b].meta.batch_id],
                                              polls[b], downloads[b])
         IN  IF ~fs[b].meta.exists
             THEN IF bound
                  THEN batch_dirs_loop(k + 1, order, fs, polls, downloads,
                                       counted(results, "failed", b,
                                               [error |-> "open"]),
                                       bound)
                  ELSE [raised |-> "UnboundLocalError", folders |-> fs,
                        results |-> results]
             ELSE IF already_retrieved(fs[b].meta)
             THEN batch_dirs_loop(k + 1, order, fs, polls, downloads,
                                  counted(results, "already_retrieved", b,
                                          [status |-> "already_retrieved"]),
                                  TRUE)
             ELSE batch_dirs_loop(k + 1, order, [fs EXCEPT ![b] = r.folder],
                                  polls, downloads,
                                  counted(results, counted_under(r.result), b,
                                          r.result),
                                  TRUE)

retrieve_execution_batches_return ==
    IF get_execution_path(config.execution_id, execution_dirs) = NoDir
    THEN execution_not_found
    ELSE
    \E order \in listdir(Len(folders)),
       polls \in [1..Len(folders) -> ApiOutcomes],
       downloads \in [1..Len(folders) -> ApiOutcomes] :
        /\ get_execution_path(config.execution_id, execution_dirs) = FollowedDir
        /\ LET loop == batch_dirs_loop(1, order, folders, polls, downloads,
                                       NoResults, FALSE)
           IN  /\ folders' = loop.folders
               /\ last' = [NoLast EXCEPT !.op = "retrieve_execution_batches_return",
                                         !.raised = loop.raised,
                                         !.results_summary =
                                             IF loop.raised = "" THEN loop.results
                                             ELSE <<>>]
        /\ UNCHANGED <<manifest_file, graph, loaders, config, execution_info, remote,
                       executions, procs, parent_batch_dirs>>

submit_for_summary ==
    /\ Len(folders) < MaxSummaryBatches
    /\ process_batch

NextSummary ==
    \/ submit_for_summary
    \/ external_job_progress
    \/ retrieve_execution_batches_return

SpecSummary == InitRetrieve /\ [][NextSummary]_vars

(***************************************************************************)
(* Vocabulary of the properties.                                           *)
(***************************************************************************)
SubmitOps == {"submit_batch", "process_batch"}

\* the invocation `op` hands item ids to submit_batch
CallerIds(op) == op = "process_batch" \/ (op = "submit_batch" /\ config.use_ids)

\* the batch folders whose metadata.json records caller ids
IdBatches ==
    {i \in 1..Len(folders) :
        folders[i].meta.exists /\ folders[i].meta.using_custom_ids}

BatchItems(i) == DOMAIN folders[i].meta.original_texts

\* the input items that are not processed, in input order
Unprocessed ==
    SelectSeq(config.news_ids, LAMBDA x : x \notin get_processed_item_ids)

\* the first min(batch_size, u) of them
FirstUnprocessed ==
    SubSeq(Unprocessed, 1,
           IF Len(Unprocessed) > config.batch_size THEN config.batch_size
           ELSE Len(Unprocessed))

AllProcessed == Range(config.news_ids) \subseteq get_processed_item_ids

C2_NoItemSentTwice ==
    \A j \in 1..Len(remote) : \A k \in 1..Len(remote) :
        j # k => Range(remote[j].items) \cap Range(remote[k].items) \cap Ids = {}

(***************************************************************************)
(* C3: every submission with caller ids that the API accepts (or that has  *)
(* nothing to send) submits exactly the first min(batch_size, u) of the u  *)
(* unprocessed input items, in input order.                                *)
(***************************************************************************)
C3_FilterThenTruncate ==
    [][(/\ last'.op \in SubmitOps
        /\ CallerIds(last'.op)
        /\ ~last'.error)
       => last'.sent = FirstUnprocessed]_vars

(***************************************************************************)
(* C4: a submission does not return skipped while an input item is still   *)
(* unsubmitted.                                                            *)
(***************************************************************************)
C4_NoSkipWhileUnsubmitted ==
    (last.op \in SubmitOps /\ last.status = "skipped") => AllProcessed

(***************************************************************************)
(* C5: a submission whose non-empty input is entirely processed returns    *)
(* skipped, never failed, calls the external API not once and leaves the   *)
(* manifest and the batch folders as they were.                            *)
(***************************************************************************)
C5_AllProcessedIsSkipped ==
    [][(/\ last'.op \in SubmitOps
        /\ CallerIds(last'.op)
        /\ config.news_ids # <<>>
        /\ AllProcessed)
       => (/\ last'.status = "skipped"
           /\ ~last'.error
           /\ last'.api = 0
           /\ UNCHANGED <<execution_info, folders, remote>>)]_vars

(***************************************************************************)
(* C6: a submission of an empty input returns failed with an error, never  *)
(* skipped, calls the external API not once and registers no batch; a      *)
(* submission returns skipped only when its input was non-empty and every  *)
(* item of it was already processed.                                       *)
(***************************************************************************)
C6_EmptyFailsAndSkippedMeansProcessed ==
    [][/\ (last'.op = "submit_batch" /\ config.news_ids = <<>>)
          => (/\ last'.status = "failed"
              /\ last'.error
              /\ last'.api = 0
              /\ UNCHANGED <<execution_info, folders, remote>>)
       /\ (last'.op \in SubmitOps /\ last'.status = "skipped")
          => (config.news_ids # <<>> /\ AllProcessed)]_vars

(***************************************************************************)
(* Vocabulary of the retrieval properties.                                 *)
(***************************************************************************)
RetrieveOps == {"retrieve_batch_results", "retrieve_execution_batches"}

\* the external job of the batch folder b
JobOf(b) == remote[folders[b].meta.batch_id]

\* the invocation that just returned was a retrieval of a folder with metadata
Retrieval(b) ==
    /\ last'.op \in RetrieveOps
    /\ last'.batch = b
    /\ folders[b].meta.exists

WellFormed(output) == \A i \in 1..Len(output) : output[i].kind = "rec"

(***************************************************************************)
(* C7: a retrieval of a batch whose metadata already has retrieved = true  *)
(* returns already_retrieved, calls the external API not once and rewrites *)
(* no file of the batch folder.                                            *)
(***************************************************************************)
C7_RetrievedIsNotRetrievedAgain ==
    [][\A b \in 1..Len(folders) :
          (Retrieval(b) /\ folders[b].meta.retrieved)
          => (/\ last'.status = "already_retrieved"
              /\ last'.api = 0
              /\ folders' = folders)]_vars

(***************************************************************************)
(* C8: after retrieve_batch_results returned completed for a batch, the    *)
(* metadata of the batch has retrieved = true, a completion time and       *)
(* n_results equal to the number of result files written.                  *)
(***************************************************************************)
C8_CompletedIsMarkedRetrieved ==
    (last.op = "retrieve_batch_results" /\ last.status = "completed")
    => (/\ folders[last.batch].meta.retrieved
        /\ folders[last.batch].meta.completed_at
        /\ folders[last.batch].meta.n_results
              = Cardinality(DOMAIN folders[last.batch].results))

C10_MalformedLineIsSkipped ==
    [][\A b \in 1..Len(folders) :
          (/\ last'.op = "retrieve_batch_results"
           /\ last'.batch = b
           /\ folders[b].meta.exists
           /\ JobOf(b).status = "completed"
           /\ ~last'.api_failed)
          => \A i \in 1..Len(JobOf(b).output) :
                (/\ JobOf(b).output[i].kind = "rec"
                 /\ JobOf(b).output[i].custom_id
                       \in DOMAIN folders[b].meta.original_texts)
                => (/\ result_index(JobOf(b).output[i].custom_id)
                          \in DOMAIN folders'[b].results
                    /\ JobOf(b).output[i].custom_id \in Range(last'.results))]_vars

(***************************************************************************)
(* Vocabulary of the claims about the parse of a result line.              *)
(***************************************************************************)
\* retrieve_batch_results just ran on the completed batch b, the poll and the
\* download succeeding
Materialized(b) ==
    /\ last'.op = "retrieve_batch_results"
    /\ last'.batch = b
    /\ folders[b].meta.exists
    /\ JobOf(b).status = "completed"
    /\ ~last'.api_failed

\* every line is a record with response.choices
FlatRecords(output) ==
    \A i \in 1..Len(output) : output[i].kind = "rec" /\ output[i].shape = "flat"

\* what a result file may hold for a content: the parsed object, or the
\* wrapper of the original text
ParsedOrRaw(content) ==
    {[kind |-> "object", value |-> "entities: []"],
     [kind |-> "raw_output", value |-> content]}

(***************************************************************************)
(* C11: whatever the content of a result line is (JSON, JSON in a fenced   *)
(* json block, text that is not JSON, empty, null), retrieve_batch_results *)
(* does not fail on it and writes, for every line whose custom_id is in    *)
(* original_texts, a result file holding the parsed object or the          *)
(* raw_output wrapper of the original text.                                *)
(***************************************************************************)
C11_EveryContentIsMaterialized ==
    [][\A b \in 1..Len(folders) :
          (Materialized(b) /\ FlatRecords(JobOf(b).output))
          => /\ last'.status = "completed"
             /\ \A i \in 1..Len(JobOf(b).output) :
                   LET line == JobOf(b).output[i]
                   IN  line.custom_id \in DOMAIN folders[b].meta.original_texts
                       => /\ result_index(line.custom_id)
                                \in DOMAIN folders'[b].results
                          /\ folders'[b].results[result_index(line.custom_id)]
                                \in ParsedOrRaw(line.content)]_vars

(***************************************************************************)
(* C12: a record that holds its choices under response.body gets the same  *)
(* result file as a record that holds them under response: when the        *)
(* retrieval completed, the file of every line is the parse of the line's  *)
(* content, an object when the content is JSON.                            *)
(***************************************************************************)
C12_NestedChoicesAreExtracted ==
    [][\A b \in 1..Len(folders) :
          (Materialized(b) /\ last'.status = "completed")
          => \A i \in 1..Len(JobOf(b).output) :
                LET line == JobOf(b).output[i]
                IN  line.custom_id \in DOMAIN folders[b].meta.original_texts
                    => folders'[b].results[result_index(line.custom_id)]
                          = parsed_content(line.content)]_vars

(***************************************************************************)
(* C13: check_batch_status changes nothing but status and last_checked of  *)
(* the metadata of the batch it polls: no download, no result file, the    *)
(* other metadata fields, the other folders, the manifest and the external *)
(* job as they were; the persisted status after a successful poll is the   *)
(* external status, so that a second poll of an unchanged job persists the *)
(* same status.                                                            *)
(***************************************************************************)
C13_PollChangesOnlyStatus ==
    [][\A b \in 1..Len(folders) :
          (last'.op = "check_batch_status" /\ last'.batch = b)
          => /\ folders' = [folders EXCEPT
                              ![b].meta.status = folders'[b].meta.status,
                              ![b].meta.last_checked = folders'[b].meta.last_checked]
             /\ execution_info' = execution_info
             /\ remote' = remote
             /\ last'.api <= 1
             /\ last'.api_failed => folders' = folders
             /\ ~last'.api_failed
                  => /\ folders'[b].meta.status = JobOf(b).status
                     /\ folders'[b].meta.last_checked]_vars

\* a poll just found a batch in progress whose metadata an earlier poll had
\* already brought to in_progress
C13_Witness ==
    /\ last.op = "check_batch_status"
    /\ ~last.error
    /\ last.status = "in_progress"
    /\ folders[last.batch].meta.status = "in_progress"
    /\ folders[last.batch].meta.last_checked
    /\ ~folders[last.batch].meta.retrieved
    /\ ~folders[last.batch].output_file
    /\ folders[last.batch].results = NoFiles

(***************************************************************************)
(* C14: the status in the metadata of a batch is always one of submitted,  *)
(* completed, failed, expired; it changes only from submitted to one of    *)
(* the other three, and once it is one of those three it stays what it is, *)
(* also when a poll fails.                                                 *)
(***************************************************************************)
TerminalStatuses == {"completed", "failed", "expired"}

C14_StatusStateMachine ==
    [][\A b \in 1..Len(folders') :
          folders'[b].meta.exists
          => /\ folders'[b].meta.status \in {"submitted"} \cup TerminalStatuses
             /\ (b <= Len(folders) /\ folders[b].meta.exists
                    /\ folders'[b].meta.status # folders[b].meta.status)
                => /\ folders[b].meta.status = "submitted"
                   /\ folders'[b].meta.status \in TerminalStatuses]_vars

AllocatedTo(p) == procs[p].execution_ids

\* a call of get_execution_path("") by p returns in this step
Allocates(p) == Len(procs'[p].execution_ids) > Len(procs[p].execution_ids)

\* what it returns
Allocated(p) == procs'[p].execution_ids[Len(procs'[p].execution_ids)]

(***************************************************************************)
(* C16: with one call at a time, get_execution_path with an empty id       *)
(* returns execution_<max(n)+1> over the execution_<n> directories there   *)
(* are (execution_1 when there is none): a number above that of every      *)
(* existing execution, whose manifest it initializes with no batches and   *)
(* no processed_item_ids, leaving the manifests of the others as they      *)
(* were; the numbers it returns to a caller increase strictly.             *)
(***************************************************************************)
C16_SequentialAllocationIsFresh ==
    [][\A p \in Procs :
          Allocates(p)
          => LET n == Allocated(p)
             IN  /\ n \notin execution_dirs
                 /\ \A m \in execution_dirs : m < n
                 /\ n = IF execution_dirs = {} THEN 1 ELSE Max(execution_dirs) + 1
                 /\ last'.execution = n
                 /\ executions'[n].exists
                 /\ executions'[n].batches = <<>>
                 /\ executions'[n].processed_item_ids = <<>>
                 /\ \A m \in execution_dirs : executions'[m] = executions[m]
                 /\ \A i \in 1..Len(AllocatedTo(p)) : AllocatedTo(p)[i] < n]_vars

\* a second execution was just allocated, its manifest empty, next to a first
\* one that holds a registered batch
C16_Witness ==
    /\ last.op = "get_execution_path"
    /\ last.execution = 2
    /\ execution_dirs = {1, 2}
    /\ executions[1].processed_item_ids # <<>>
    /\ executions[2].exists
    /\ executions[2].batches = <<>>
    /\ executions[2].processed_item_ids = <<>>

(***************************************************************************)
(* C17: when two processes call get_execution_path with an empty id at the *)
(* same time they get different executions, and the manifest one of them   *)
(* wrote is not overwritten by the allocation of the other.                *)
(***************************************************************************)
C17_ConcurrentAllocationIsAtomic ==
    [][/\ \A p, q \in Procs :
             p # q => Range(procs'[p].execution_ids)
                         \cap Range(procs'[q].execution_ids) = {}
       /\ \A p \in Procs :
             Allocates(p)
             => \A m \in execution_dirs :
                   executions[m].exists => executions'[m] = executions[m]]_vars

(***************************************************************************)
(* C18: when the execution id a run is given matches nothing, not as a     *)
(* path, not as the name of an execution and not as the number of one, the *)
(* run fails with a structured result (status failed and an error); the    *)
(* lookup creates no directory and changes no manifest, and process_batch  *)
(* submits nothing to the external API.                                    *)
(***************************************************************************)
C18_UnknownExecutionFails ==
    [][(/\ get_execution_path(config.execution_id, execution_dirs) = NoDir
        /\ last'.op \in {"process_batch", "retrieve_execution_batches"})
       => /\ last'.status = "failed"
          /\ last'.error
          /\ last'.api = 0
          /\ remote' = remote
          /\ executions' = executions
          /\ parent_batch_dirs' = parent_batch_dirs
          /\ folders' = folders
          /\ execution_info' = execution_info]_vars

(***************************************************************************)
(* C19: after any number of submissions, with caller ids or without, the   *)
(* set get_processed_item_ids reads from the manifest is the set its scan  *)
(* of the batch folders gives: the union of the keys of original_texts of  *)
(* every metadata.json.                                                    *)
(***************************************************************************)
C19_ManifestEqualsScan ==
    execution_info.exists
    => Range(execution_info.processed_item_ids) = scan_batch_directories

(***************************************************************************)
(* C20: update_execution_metadata unions item_ids into processed_item_ids: *)
(* afterwards the list holds every id it held and every id of item_ids,    *)
(* each once, the ids it held first and in their order; registering ids    *)
(* that are all in the list already adds nothing, and no id is removed.    *)
(***************************************************************************)
NoDuplicates(list) ==
    \A i, j \in 1..Len(list) : list[i] = list[j] => i = j

C20_RegistrationIsSetUnion ==
    [][last'.op = "update_execution_metadata"
       => LET old == execution_info.processed_item_ids
              new == execution_info'.processed_item_ids
              item_ids == last'.sent
          IN  /\ Range(new) = Range(old) \cup Range(item_ids)
              /\ NoDuplicates(new)
              /\ Len(new) >= Len(old)
              /\ SubSeq(new, 1, Len(old)) = old
              /\ Range(item_ids) \subseteq Range(old) => new = old]_vars

\* a second registration just passed a list that names an id twice and an id
\* the first registration had added
C20_Witness ==
    /\ last.op = "update_execution_metadata"
    /\ Len(execution_info.batches) = 2
    /\ Len(last.sent) = 2
    /\ last.sent[1] = last.sent[2]
    /\ execution_info.processed_item_ids = <<last.sent[1]>>
    /\ execution_info.batches[1].n_items = 1

(***************************************************************************)
(* C21: a reader that runs get_processed_item_ids or get_execution_info    *)
(* while save_json rewrites execution_info.json finds the complete old or  *)
(* the complete new content, never an empty or partial file: what it       *)
(* returns is the id set of the old manifest or that of the new one.       *)
(***************************************************************************)
ReadOps == {"get_execution_info", "get_processed_item_ids"}

C21_ReaderSeesOldOrNew ==
    [][(last'.op \in ReadOps /\ last' # last /\ manifest_file.writing)
        => /\ last'.status = "complete"
           /\ last'.returned \in
                {Range(execution_info.processed_item_ids),
                 Range(manifest_file.data.processed_item_ids)}]_vars

(***************************************************************************)
(* C22: with execution_info.json missing or not parseable no read raises:  *)
(* get_execution_info returns the empty state, get_processed_item_ids      *)
(* returns the ids rebuilt from original_texts of the batch folders, and a *)
(* submission with caller ids sends no id that a batch folder already      *)
(* records.                                                                *)
(***************************************************************************)
ManifestUnusable == observed_file # "complete"

C22_UnusableManifestFallsBack ==
    [][(ManifestUnusable /\ last' # last)
        => /\ last'.op = "get_execution_info"
                => (~last'.error /\ last'.returned = {} /\ last'.batch = 0)
           /\ last'.op = "get_processed_item_ids"
                => (~last'.error /\ last'.returned = scan_batch_directories)
           /\ (last'.op \in SubmitOps /\ CallerIds(last'.op))
                => Range(last'.sent) \cap scan_batch_directories = {}]_vars

\* a second batch was submitted under a manifest that does not parse, after
\* the ids of the first were found by the scan
C22_Witness ==
    /\ execution_info.exists
    /\ ~json_load_ok
    /\ last.op = "process_batch"
    /\ last.status = "validating"
    /\ last.batch = 2
    /\ folders[1].meta.exists
    /\ BatchItems(1) \cap Range(config.news_ids) # {}
    /\ last.sent # <<>>
    /\ Range(last.sent) \cap BatchItems(1) = {}

(***************************************************************************)
(* C23: in the request file the custom_id of the i-th submitted item is    *)
(* the caller's id of that item when ids were supplied and item_<i>        *)
(* otherwise; the custom_ids of the file are exactly the keys of           *)
(* original_texts; original_texts maps each custom_id to the text that the *)
(* input paired with it, after filtering and truncation.                   *)
(***************************************************************************)
C23_CustomIdsPairTexts ==
    (last.op = "submit_batch_files" /\ last.status = "validating")
    => LET a == last.args
           n == Len(a.filtered_texts)
       IN  /\ Len(last.sent) = n
           /\ \A i \in 1..n :
                 /\ last.sent[i].custom_id =
                       IF a.item_ids # <<>> THEN a.filtered_item_ids[i]
                       ELSE ItemNames[i]
                 /\ last.sent[i].content = formatted_prompt(a.filtered_texts[i])
                 /\ last.sent[i].custom_id \in DOMAIN last.results
                 /\ last.results[last.sent[i].custom_id] = a.filtered_texts[i]
                 /\ a.item_ids # <<>>
                       => \E j \in 1..Len(a.texts) :
                             /\ a.item_ids[j] = a.filtered_item_ids[i]
                             /\ a.texts[j] = a.filtered_texts[i]
                 /\ a.item_ids = <<>> => a.texts[i] = a.filtered_texts[i]
           /\ {last.sent[i].custom_id : i \in 1..n} = DOMAIN last.results

\* one item with its caller id was submitted after a processed one was dropped
C23_Witness ==
    /\ last.op = "submit_batch_files"
    /\ last.status = "validating"
    /\ Len(last.args.texts) = 3
    /\ Len(last.sent) = 1
    /\ last.args.item_ids # <<>>
    /\ last.sent[1].custom_id = last.args.item_ids[2]
    /\ last.args.texts[1] # last.args.texts[2]

(***************************************************************************)
(* C24: every invocation of submit_batch, check_batch_status,              *)
(* retrieve_batch_results and retrieve_execution_batches returns a dict    *)
(* with a status, whatever happens (unknown task, missing or unreadable    *)
(* metadata, a remote error, malformed output): no exception leaves it.    *)
(***************************************************************************)
EntryPoints ==
    {"submit_batch", "process_batch", "check_batch_status",
     "retrieve_batch_results", "retrieve_execution_batches"}

C24_EveryCallReturnsStatus ==
    last.op \in EntryPoints => (last.raised = "" /\ last.status # "")

(***************************************************************************)
(* C25: when the upload or the job creation fails, submit_batch returns    *)
(* failed with an error, the batch has no metadata.json, the processed ids *)
(* and the manifest are as before, and the next invocation submits the     *)
(* same items; when the remote call of check_batch_status fails it returns *)
(* failed with an error and no persisted metadata changes.                 *)
(***************************************************************************)
C25_FailedCallPersistsNothing ==
    [][/\ (last'.op \in SubmitOps /\ last'.api_failed)
            => /\ last'.status = "failed"
               /\ last'.error
               /\ Len(folders') = Len(folders) + 1
               /\ SubSeq(folders', 1, Len(folders)) = folders
               /\ ~folders'[Len(folders')].meta.exists
               /\ execution_info' = execution_info
               /\ remote' = remote
               /\ get_processed_item_ids' = get_processed_item_ids
       /\ (last.op \in SubmitOps /\ last.api_failed
             /\ last'.op = last.op /\ last'.batch = last.batch + 1)
            => folders'[last'.batch].request = folders[last.batch].request
       /\ (last'.op = "check_batch_status" /\ last'.api_failed)
            => /\ last'.status = "failed"
               /\ last'.error
               /\ folders' = folders
               /\ execution_info' = execution_info]_vars

\* the items of a failed submission were just submitted again and accepted
C25_Witness ==
    /\ Len(folders) = 2
    /\ ~folders[1].meta.exists
    /\ folders[1].request # <<>>
    /\ folders[2].meta.exists
    /\ folders[2].request = folders[1].request
    /\ last.op \in SubmitOps
    /\ last.batch = 2
    /\ last.status = "validating"

(***************************************************************************)
(* C26: normalization is insensitive to case, punctuation and legal        *)
(* suffixes: "Acme Corp." and "ACME" both normalize to "acme", and for     *)
(* every base name n and every listed suffix s the names n + " " + s and   *)
(* n + ", " + s + "." normalize to what n normalizes to.                   *)
(***************************************************************************)
C26_SuffixesDoNotMatter ==
    /\ _normalize_entity_name(<<"A", "c", "m", "e", " ", "C", "o", "r", "p", ".">>) = <<"a", "c", "m", "e">>
    /\ _normalize_entity_name(<<"A", "C", "M", "E">>) = <<"a", "c", "m", "e">>
    /\ last.op = "_normalize_entity_name"
         => /\ last.results.spaced = last.results.base
            /\ last.results.dotted = last.results.base

\* a name with a capital and a word that is itself a suffix, and a suffix of
\* the list that the pattern does not name
C26_Witness ==
    /\ last.op = "_normalize_entity_name"
    /\ last.args.name = <<"A", "c", "o">>
    /\ last.args.suffix = <<"g", "m", "b", "h">>
    /\ last.results.base = <<"a", "c", "o">>
    /\ last.results.dotted = <<"a", "c", "o">>

(***************************************************************************)
(* C27: whenever the store holds an entity whose raw name and type are     *)
(* those of the new entity, find_matching_entity returns the id of such an *)
(* entity by the exact pass, without the fuzzy pass, whatever other        *)
(* entities of the type there are.                                         *)
(***************************************************************************)
Inserted == last'.op = "insert_entity" /\ graph' # graph

ReturnsExactMatch ==
    /\ last'.status = "exact"
    /\ \E i \in exact_matches(graph.nodes, last'.args) :
          last'.returned = {graph.nodes[i].id}

C27_ExactMatchWins ==
    [][(Inserted /\ exact_matches(graph.nodes, last'.args) # {})
        => ReturnsExactMatch]_vars

\* C27 as it holds: the same for a new entity that has a name
C27_NamedExactMatchWins ==
    [][(Inserted /\ last'.args.name # <<>>
          /\ exact_matches(graph.nodes, last'.args) # {})
        => ReturnsExactMatch]_vars

\* an exact match was returned while another entity of the type passes the
\* containment test against the new name
C27_Witness ==
    /\ last.op = "insert_entity"
    /\ last.status = "exact"
    /\ \E i \in 1..Len(graph.nodes) : \E j \in 1..Len(graph.nodes) :
          /\ i # j
          /\ last.returned = {graph.nodes[i].id}
          /\ graph.nodes[i].name = last.args.name
          /\ graph.nodes[j].type = last.args.type
          /\ compared_names[last.args.name, graph.nodes[j].name].candidate

(***************************************************************************)
(* C28: with no exact match, a fuzzy match is returned only if the best    *)
(* containment candidate has a Jaccard similarity of its words above 0.5   *)
(* (2 * |A \cap B| > |A \cup B|); a best candidate at exactly 0.5 gives no *)
(* match and a new entity; a containment candidate above 0.5 gives a       *)
(* match.                                                                  *)
(***************************************************************************)
Words(name) == Range(split(_normalize_entity_name(name)))

Jaccard2(a, b) ==
    [twice_common |-> 2 * Cardinality(Words(a) \cap Words(b)),
     all |-> Cardinality(Words(a) \cup Words(b))]

\* the nodes of the entity's type that pass the containment test
ContainmentCandidates(nodes, e) ==
    {i \in 1..Len(nodes) :
        /\ nodes[i].type = e.type
        /\ is_candidate(_normalize_entity_name(e.name),
                        _normalize_entity_name(nodes[i].name))}

Above(nodes, e) ==
    {i \in ContainmentCandidates(nodes, e) :
        Jaccard2(e.name, nodes[i].name).twice_common
            > Jaccard2(e.name, nodes[i].name).all}

C28_ThresholdIsStrict ==
    [][(Inserted /\ last'.args.name # <<>>
          /\ exact_matches(graph.nodes, last'.args) = {})
        => /\ last'.status \in {"fuzzy", "created"}
           /\ last'.status = "fuzzy"
                => \E i \in Above(graph.nodes, last'.args) :
                      last'.returned = {graph.nodes[i].id}
           /\ Above(graph.nodes, last'.args) # {} => last'.status = "fuzzy"
           /\ Above(graph.nodes, last'.args) = {}
                => /\ last'.status = "created"
                   /\ Len(graph'.nodes) = Len(graph.nodes) + 1]_vars

\* a new entity was created although a containment candidate shares exactly
\* half of the words
C28_Witness ==
    /\ last.op = "insert_entity"
    /\ last.status = "created"
    /\ \E i \in ContainmentCandidates(graph.nodes, last.args) :
          /\ graph.nodes[i].id \notin last.returned
          /\ Jaccard2(last.args.name, graph.nodes[i].name).twice_common
                = Jaccard2(last.args.name, graph.nodes[i].name).all

(***************************************************************************)
(* C29: after any sequence of insert_entity calls on an empty graph no two *)
(* stored entities of one type have the same normalized name; IBM and      *)
(* IBM Corp never end up as two entities.                                  *)
(***************************************************************************)
C29_OneEntityPerNormalizedName ==
    \A i \in 1..Len(graph.nodes) : \A j \in 1..Len(graph.nodes) :
        (i # j /\ graph.nodes[i].type = graph.nodes[j].type)
        => _normalize_entity_name(graph.nodes[i].name)
              # _normalize_entity_name(graph.nodes[j].name)

(***************************************************************************)
(* C30: _update_entity_attributes removes no attribute of the entity; a    *)
(* value of the new entity that is not null overwrites the old one of its  *)
(* key; a key that the new entity lacks or holds null for keeps its old    *)
(* value; id and type stay, and the name changes only to a non-empty name  *)
(* of the new entity.  No other entity changes.                            *)
(***************************************************************************)
Merged ==
    \/ last'.op = "_update_entity_attributes"
    \/ last'.op = "insert_entity" /\ last'.status \in {"exact", "fuzzy"}

C30_MergeKeepsAndOverwrites ==
    [][(Merged /\ last' # last)
        => /\ Len(graph'.nodes) = Len(graph.nodes)
           /\ \A i \in 1..Len(graph.nodes) :
                LET old == graph.nodes[i]
                    new == graph'.nodes[i]
                    e == last'.args
                IN  IF old.id \notin last'.returned THEN new = old
                    ELSE /\ DOMAIN old.attributes \subseteq DOMAIN new.attributes
                         /\ \A k \in DOMAIN e.attributes :
                               e.attributes[k] # None
                               => new.attributes[k] = e.attributes[k]
                         /\ \A k \in DOMAIN old.attributes :
                               (k \notin DOMAIN e.attributes
                                  \/ e.attributes[k] = None)
                               => new.attributes[k] = old.attributes[k]
                         /\ new.id = old.id
                         /\ new.type = old.type
                         /\ new.name = IF e.name # <<>> THEN e.name ELSE old.name]_vars

(***************************************************************************)
(* Claims about the loading of the graph.                                  *)
(***************************************************************************)
\* what insert_entity returned is the id of an entity that was in the graph
ReturnsExisting == \E i \in 1..Len(graph.nodes) : last'.returned = {graph.nodes[i].id}

\* C31: a call of insert_entity either returns the id of an entity that was
\* in the graph, adds 1 to disambiguation_count and leaves the number of
\* entities as it was, or creates exactly one entity and leaves the counter
\* as it was.
C31_DisambiguationAccounting ==
    [][last'.op = "insert_entity" =>
         \/ /\ ReturnsExisting
            /\ graph'.disambiguation_count = graph.disambiguation_count + 1
            /\ Len(graph'.nodes) = Len(graph.nodes)
         \/ /\ Len(graph'.nodes) = Len(graph.nodes) + 1
            /\ graph'.disambiguation_count = graph.disambiguation_count]_vars

\* two loaders that have inserted an entity of the same name and type, and
\* found no match for it
BothSawNoMatch(l1, l2) ==
    /\ l1 # l2
    /\ loaders[l1].pc = "done" /\ loaders[l2].pc = "done"
    /\ loaders[l1].existing_id = None /\ loaders[l2].existing_id = None
    /\ loaders[l1].entity_data.name # <<>>
    /\ loaders[l1].entity_data.name = loaders[l2].entity_data.name
    /\ loaders[l1].entity_data.type = loaders[l2].entity_data.type

\* the graph holds a node of the id of each of the two loaders' entities
BothCreated(l1, l2) ==
    \E i, j \in 1..Len(graph.nodes) :
        /\ i # j
        /\ graph.nodes[i].id = loaders[l1].entity_data.id
        /\ graph.nodes[j].id = loaders[l2].entity_data.id

\* C32: two loaders that insert entities of the same name and type from
\* different documents and both find no match both create a node: the graph
\* then holds two entities for the one real-world entity.
C32_BothLoadersCreate ==
    \A l1, l2 \in Loaders : BothSawNoMatch(l1, l2) => BothCreated(l1, l2)

\* both loaders found no match for the same name and type, and the graph
\* holds two entities of that name and type
C32_Witness ==
    \E l1, l2 \in Loaders :
        /\ BothSawNoMatch(l1, l2)
        /\ \E i, j \in 1..Len(graph.nodes) :
             /\ i # j
             /\ graph.nodes[i].name = loaders[l1].entity_data.name
             /\ graph.nodes[j].name = loaders[l1].entity_data.name
             /\ graph.nodes[i].type = graph.nodes[j].type
             /\ graph.nodes[i].type = loaders[l1].entity_data.type

\* the ids that insert_entity returned for the entities of the loader's file
\* and that its relationships are rewritten to
CanonicalIds(loader) ==
    {loader.entity_id_mapping[k] : k \in DOMAIN loader.entity_id_mapping}

\* the relationship that the next pass of the loop takes
NextRelationship == loaders[1].data.relationships[loaders[1].pos]

InRelationships ==
    /\ loaders[1].pc = "relationships"
    /\ loaders[1].pos <= Len(loaders[1].data.relationships)

Resolves(relationship) ==
    /\ relationship.source \in DOMAIN loaders[1].entity_id_mapping
    /\ relationship.target \in DOMAIN loaders[1].entity_id_mapping

\* C33: every relationship that process_json_file commits has as source and
\* target ids that insert_entity returned for entities of the same file,
\* entities that were all committed before its first relationship; a
\* relationship with a source or target that the mapping of the file does
\* not resolve is neither committed nor counted.
C33_RelationshipsUseCanonicalIds ==
    [][/\ last'.op = "insert_entity"
            => \E original_id \in DOMAIN loaders'[1].entity_id_mapping :
                  /\ last'.returned = {loaders'[1].entity_id_mapping[original_id]}
                  /\ CanonicalIds(loaders'[1]) \subseteq
                         {graph'.nodes[i].id : i \in 1..Len(graph'.nodes)}
       /\ graph'.edges # <<>> => loaders'[1].pc # "entities"
       /\ loaders[1].pc # "entities"
            => /\ graph'.nodes = graph.nodes
               /\ loaders'[1].entity_id_mapping = loaders[1].entity_id_mapping
       /\ \A k \in 1..Len(graph'.edges) :
             /\ graph'.edges[k].source \in CanonicalIds(loaders'[1])
             /\ graph'.edges[k].target \in CanonicalIds(loaders'[1])
       /\ (InRelationships /\ ~Resolves(NextRelationship))
            => /\ graph' = graph
               /\ loaders'[1].processed_rels = loaders[1].processed_rels
               /\ loaders'[1].pos = loaders[1].pos + 1
       /\ (InRelationships /\ Resolves(NextRelationship)
             /\ loaders'[1].pc = "relationships")
            => /\ loaders'[1].processed_rels = loaders[1].processed_rels + 1
               /\ \E k \in 1..Len(graph'.edges) :
                     /\ graph'.edges[k].source =
                            loaders[1].entity_id_mapping[NextRelationship.source]
                     /\ graph'.edges[k].target =
                            loaders[1].entity_id_mapping[NextRelationship.target]]_vars

\* a file is loaded: one of its relationships was dropped, another is in the
\* graph, from an entity that was merged into an earlier one of the file
C33_Witness ==
    /\ loaders[1].pc = "done"
    /\ loaders[1].processed_rels = 1
    /\ Len(loaders[1].data.relationships) = 2
    /\ graph.disambiguation_count = 1
    /\ \E k \in 1..Len(graph.edges) :
          /\ graph.edges[k].source = graph.edges[k].target
          /\ graph.edges[k].source = "result_0_e1"

\* the edges of the source, the upper-cased type and the target of a
\* relationship
SameTriple(edges, relationship_data) ==
    {k \in 1..Len(edges) :
        /\ edges[k].source = relationship_data.source
        /\ edges[k].type = upper(relationship_data.type)
        /\ edges[k].target = relationship_data.target}

\* the relationship that the step has inserted, its query accepted
InsertedRelationship ==
    /\ last'.op = "insert_relationship"
    /\ last'.raised = ""

\* C34: there is at most one edge of a source, a type and a target; a
\* relationship inserted for the triple of an edge creates no edge: its
\* attributes and its id (when it has one) overwrite those of the edge, the
\* attributes it does not mention are kept, and no other edge changes.
C34_OneEdgePerTriple ==
    [][/\ \A k, j \in 1..Len(graph'.edges) :
             (/\ graph'.edges[k].source = graph'.edges[j].source
              /\ graph'.edges[k].type = graph'.edges[j].type
              /\ graph'.edges[k].target = graph'.edges[j].target) => k = j
       /\ InsertedRelationship =>
             \A k \in 1..Len(graph.edges) :
                IF k \in SameTriple(graph.edges, last'.args)
                THEN /\ Len(graph'.edges) = Len(graph.edges)
                     /\ graph'.edges[k].id =
                            IF last'.args.id # "" THEN last'.args.id
                            ELSE graph.edges[k].id
                     /\ DOMAIN graph'.edges[k].attributes =
                            DOMAIN graph.edges[k].attributes
                               \cup DOMAIN last'.args.attributes
                     /\ \A key \in DOMAIN graph'.edges[k].attributes :
                           graph'.edges[k].attributes[key] =
                              IF key \in DOMAIN last'.args.attributes
                              THEN str(last'.args.attributes[key])
                              ELSE graph.edges[k].attributes[key]
                ELSE graph'.edges[k] = graph.edges[k]]_vars

\* a relationship without attributes was inserted for the triple of an edge
\* that has an attribute: the edge has the id of the relationship and has
\* kept the attribute
C34_Witness ==
    /\ last.op = "insert_relationship"
    /\ last.args.id = "result_1_r1"
    /\ last.args.attributes = <<>>
    /\ Len(graph.edges) = 1
    /\ graph.edges[1].id = "result_1_r1"
    /\ graph.edges[1].attributes = [key \in {"sector"} |-> "tech"]

\* the step is a run of process_execution_batches
LoadedExecution == last'.op = "process_execution_batches"

Marked(folder) ==
    folder.meta.exists /\ folder.meta.readable /\ folder.meta.saved_to_neo4j

AllLoad(folder) == \A j \in 1..Len(folder.json_files) : folder.json_files[j]

\* C35: a file that fails to load stops neither the files after it nor the
\* batches after it; the batch of such a file is counted under failed and
\* is marked saved_to_neo4j only when all its files loaded; a batch that is
\* marked is reported already_loaded and none of its files is loaded again.
C35_FailedFileDoesNotStopTheLoad ==
    [][LoadedExecution =>
         /\ \A b \in 1..Len(folders) :
               IF Marked(folders[b])
               THEN /\ last'.results[b] = "already_loaded"
                    /\ \A j \in 1..Len(folders[b].json_files) :
                          <<b, j>> \notin last'.sent
                    /\ folders'[b] = folders[b]
               ELSE IF folders[b].json_files = <<>>
               THEN last'.results[b] = "skipped" /\ folders'[b] = folders[b]
               ELSE /\ \A j \in 1..Len(folders[b].json_files) :
                          <<b, j>> \in last'.sent
                    /\ last'.results[b] =
                          IF AllLoad(folders[b]) THEN "loaded"
                          ELSE "partially_failed"
                    /\ Marked(folders'[b]) => AllLoad(folders[b])
                    /\ (AllLoad(folders[b]) /\ folders[b].meta.exists)
                          => Marked(folders'[b])
         /\ last'.returned.failed =
               Cardinality({b \in 1..Len(folders) :
                              ~Marked(folders[b]) /\ ~AllLoad(folders[b])})
         /\ last'.returned.already_loaded =
               Cardinality({b \in 1..Len(folders) : Marked(folders[b])})]_vars

\* the first file of the first batch failed: its second file and the files
\* of the second batch were loaded all the same, the first batch is not
\* marked and the second is
C35_Witness ==
    /\ last.op = "process_execution_batches"
    /\ Len(folders) = 2
    /\ Len(folders[1].json_files) = 2
    /\ ~folders[1].json_files[1]
    /\ <<1, 2>> \in last.sent
    /\ <<2, 1>> \in last.sent
    /\ last.results = <<"partially_failed", "loaded">>
    /\ ~Marked(folders[1])
    /\ Marked(folders[2])

\* the fuzzy pass may return the node for the entity: the type is the
\* entity's, the entity's normalized name has more than 2 characters, and
\* one normalized name contains the other, which has more than 3 characters
PassesGate(node, entity_data) ==
    LET normalized_name == normalized_names[entity_data.name]
        candidate_normalized == normalized_names[node.name]
    IN  /\ node.type = entity_data.type
        /\ Len(normalized_name) > 2
        /\ \/ /\ Len(normalized_name) > 3
              /\ Len(normalized_name) <= Len(candidate_normalized)
              /\ \E k \in 0..(Len(candidate_normalized) - Len(normalized_name)) :
                    SubSeq(candidate_normalized, k + 1, k + Len(normalized_name))
                        = normalized_name
           \/ /\ Len(candidate_normalized) > 3
              /\ Len(candidate_normalized) <= Len(normalized_name)
              /\ \E k \in 0..(Len(normalized_name) - Len(candidate_normalized)) :
                    SubSeq(normalized_name, k + 1, k + Len(candidate_normalized))
                        = candidate_normalized

\* C36: with no exact match in the graph, find_matching_entity returns the
\* id of an entity only if the entity passes the gate of the fuzzy pass;
\* when no entity passes it there is no match and the entity is created.
C36_FuzzyCandidateGate ==
    [][(Inserted /\ last'.args.name # <<>>
          /\ exact_matches(graph.nodes, last'.args) = {})
        => /\ last'.status = "fuzzy"
                => \E i \in 1..Len(graph.nodes) :
                      /\ last'.returned = {graph.nodes[i].id}
                      /\ PassesGate(graph.nodes[i], last'.args)
           /\ (\A i \in 1..Len(graph.nodes) :
                   ~PassesGate(graph.nodes[i], last'.args))
                => /\ last'.status = "created"
                   /\ last'.returned = {last'.args.id}]_vars

\* an entity was created although the graph holds an entity of its type
\* with the same normalized name: the name has 3 characters
C36_Witness ==
    /\ last.op = "insert_entity"
    /\ last.status = "created"
    /\ \E i \in 1..Len(graph.nodes) :
          /\ graph.nodes[i].id \notin last.returned
          /\ graph.nodes[i].type = last.args.type
          /\ normalized_names[graph.nodes[i].name]
                = normalized_names[last.args.name]
          /\ Len(normalized_names[last.args.name]) = 3

\* C37: the result file of an item is named by the index when the custom
\* id is item_<index> and by the id itself when the caller supplied it, so
\* no two custom ids of a batch have the same result file.
C37_ResultFilesAreInjective ==
    last.op = "process_batch_results" =>
        \A i, j \in 1..Len(last.results) :
            last.results[i].result_file = last.results[j].result_file => i = j

\* the step is an invocation of retrieve_batch_results that downloaded the
\* output of the batch: the status call and the download both answered
Downloaded(b) ==
    /\ last'.op = "retrieve_batch_results"
    /\ last'.batch = b
    /\ last'.api = 2
    /\ ~last'.api_failed

\* C38: the output of a batch is downloaded only while the batch folder has
\* no output file, the download leaves the file there, and the file stays:
\* over any sequence of invocations, those that fail on the lines and are
\* repeated included, the output of a batch is downloaded at most once.
C38_OutputDownloadedOnce ==
    [][\A b \in 1..Len(folders) :
          /\ Downloaded(b)
               => ~folders[b].output_file /\ folders'[b].output_file
          /\ folders[b].output_file => folders'[b].output_file]_vars

\* an invocation that found the output file, made no download and failed on
\* the lines, as the one that downloaded the file did
C38_Witness ==
    /\ last.op = "retrieve_batch_results"
    /\ last.status = "failed"
    /\ last.error
    /\ ~last.api_failed
    /\ last.api = 1
    /\ folders[last.batch].output_file

\* the process is in the loop and the job of its batch has a final status
WaitsForFinishedJob ==
    /\ procs[1].pc \in {"polling", "sleeping"}
    /\ remote[folders[procs[1].batch].meta.batch_id].status
          \in {"completed", "failed", "expired"}

\* C39: once the job of the batch has a final status the loop that waits
\* for it ends: it goes on to the retrieval when the job is completed and
\* stops when the job has failed or expired.
C39_WaitLoopEnds ==
    WaitsForFinishedJob ~> procs[1].pc \in {"retrieve", "stopped"}

(***************************************************************************)
(* C40: in the summary retrieve_execution_batches returns, the counters    *)
(* already_retrieved, newly_retrieved, pending and failed sum to           *)
(* processed_batches, every batch folder has one entry, and a batch whose  *)
(* retrieval returned a structured failure, status failed with an error,   *)
(* is counted under failed.                                                *)
(***************************************************************************)
ReturnedSummary ==
    /\ last.op = "retrieve_execution_batches_return"
    /\ last.raised = ""
    /\ last.status = ""

StructuredFailure(retrieve_result) ==
    /\ get(retrieve_result, "status", None) = "failed"
    /\ "error" \in DOMAIN retrieve_result

C40_StructuredFailureIsCountedFailed ==
    ReturnedSummary =>
        LET results == last.results_summary
        IN  /\ results.already_retrieved + results.newly_retrieved
                 + results.pending + results.failed = results.processed_batches
            /\ Len(results.batches) = results.processed_batches
            /\ \A i \in DOMAIN results.batches :
                  StructuredFailure(results.batches[i].retrieve_result)
                      => results.batches[i].status = "failed"
====
